---- MODULE Spec2Model ----
(***************************************************************************)
(* Livestock weight prediction (bbternak): the reference tables and the    *)
(* calculation functions of sapi_weight_predictor.py and version/V3/app.py *)
(* (hitung_berat_badan, hitung_komponen_karkas, compare_formulas,          *)
(* create_breed_comparison_chart, create_prediction_table) and the flow of *)
(* the page behind its button, modelled with Python's float arithmetic and *)
(* formatting, dict insertion order and KeyError / ZeroDivisionError.      *)
(***************************************************************************)
EXTENDS Integers, Sequences, FiniteSets, TLC

VARIABLES
    ANIMAL_FORMULAS,     \* module global, sapi_weight_predictor.py:49 (V3/app.py:49 is equal)
    ANIMAL_DATA,         \* module global, sapi_weight_predictor.py:125 (V3/app.py:125 is equal)
    SLAUGHTER_DATA,      \* module global, sapi_weight_predictor.py:384
    V3_SLAUGHTER_DATA,   \* module global, version/V3/app.py:384 (three references differ)
    call,                \* the function being called and its arguments
    pc,                  \* "ready" before the call, "done" after it, else the line to run next
    result,              \* what the last call returned or raised
    objects,             \* where the dicts and lists inside result were created
    earlier,             \* an earlier call of hitung_berat_badan with its outcome, or << >>
    widgets,             \* the page: its file and the values its widgets hold
    run                  \* the last run of the script of the page: its cause and its calls

vars == <<ANIMAL_FORMULAS, ANIMAL_DATA, SLAUGHTER_DATA, V3_SLAUGHTER_DATA, call, pc, result, objects, earlier, widgets, run>>

(***************************************************************************)
(* Python's float is IEEE-754 binary64.  TLC's integers are 32 bits wide,  *)
(* so a 53-bit significand is kept as a little-endian sequence of 14-bit   *)
(* limbs (a natural number n is <<n % 2^14, (n \div 2^14) % 2^14, ...>>    *)
(* without high zero limbs; zero is << >>).                                *)
(***************************************************************************)
LimbBase == 2^14

Max2(a, b) == IF a >= b THEN a ELSE b

Limb(a, i) == IF i >= 1 /\ i <= Len(a) THEN a[i] ELSE 0

RECURSIVE Trim(_)
Trim(a) ==
    IF Len(a) > 0 /\ a[Len(a)] = 0 THEN Trim(SubSeq(a, 1, Len(a) - 1)) ELSE a

RECURSIVE CarryFrom(_, _, _)
CarryFrom(cols, i, c) ==
    IF i > Len(cols)
    THEN IF c = 0 THEN << >>
         ELSE <<c % LimbBase>> \o CarryFrom(cols, i, c \div LimbBase)
    ELSE LET t == cols[i] + c
         IN  <<t % LimbBase>> \o CarryFrom(cols, i + 1, t \div LimbBase)

FromNat(n) == Trim(CarryFrom(<<n>>, 1, 0))

BAdd(a, b) ==
    Trim(CarryFrom([i \in 1..Max2(Len(a), Len(b)) |-> Limb(a, i) + Limb(b, i)], 1, 0))

RECURSIVE BorrowFrom(_, _, _, _)
BorrowFrom(a, b, i, br) ==
    IF i > Len(a) THEN << >>
    ELSE LET t == a[i] - Limb(b, i) - br
         IN  IF t < 0 THEN <<t + LimbBase>> \o BorrowFrom(a, b, i + 1, 1)
                      ELSE <<t>> \o BorrowFrom(a, b, i + 1, 0)

\* a - b for a >= b
BSub(a, b) == Trim(BorrowFrom(a, b, 1, 0))

\* -1, 0, 1 as a < b, a = b, a > b
BCmp(a, b) ==
    IF Len(a) # Len(b) THEN (IF Len(a) > Len(b) THEN 1 ELSE -1)
    ELSE LET D == {i \in 1..Len(a) : a[i] # b[i]}
         IN  IF D = {} THEN 0
             ELSE LET k == CHOOSE i \in D : \A j \in D : j <= i
                  IN  IF a[k] > b[k] THEN 1 ELSE -1

RECURSIVE ColSum(_, _, _, _)
ColSum(a, b, k, i) ==
    IF i > Len(a) \/ i > k THEN 0
    ELSE (IF k + 1 - i <= Len(b) THEN a[i] * b[k + 1 - i] ELSE 0) + ColSum(a, b, k, i + 1)

\* a * b for operands of at most four limbs (the column sums stay below 2^31)
BMul(a, b) ==
    IF a = << >> \/ b = << >> THEN << >>
    ELSE Trim(CarryFrom([k \in 1..(Len(a) + Len(b) - 1) |-> ColSum(a, b, k, 1)], 1, 0))

\* a * 2^n
BShl(a, n) ==
    IF a = << >> THEN << >>
    ELSE [i \in 1..(n \div 14) |-> 0]
         \o CarryFrom([i \in 1..Len(a) |-> a[i] * 2^(n % 14)], 1, 0)

\* a \div 2^n
BShr(a, n) ==
    LET q == n \div 14
        r == n % 14
    IN  IF Len(a) <= q THEN << >>
        ELSE Trim([i \in 1..(Len(a) - q) |->
                      (a[i + q] \div 2^r) + (Limb(a, i + q + 1) % 2^r) * 2^(14 - r)])

\* a % 2^n = 0
BLowZero(a, n) ==
    /\ \A i \in 1..Len(a) : i <= n \div 14 => a[i] = 0
    /\ Limb(a, n \div 14 + 1) % 2^(n % 14) = 0

\* bit n of a (bit 0 is the lowest)
BBit(a, n) == (Limb(a, n \div 14 + 1) \div 2^(n % 14)) % 2

BitLen(a) ==
    IF a = << >> THEN 0
    ELSE 14 * (Len(a) - 1)
         + (CHOOSE k \in 1..14 : 2^(k - 1) <= a[Len(a)] /\ a[Len(a)] < 2^k)

(***************************************************************************)
(* A float is [kind, sign, man, exp]: kind "num" is (-1)^sign * man *      *)
(* 2^exp with man = << >> (zero, exp = 0) or 2^52 <= man < 2^53; kinds     *)
(* "inf" and "nan" are the non-finite values.  A result of 2^1024 or more  *)
(* is an infinity; exponents have no lower bound, as no value of the model *)
(* comes near 2^-1022, where a double loses precision.                     *)
(***************************************************************************)
Num(s, m, e) == [kind |-> "num", sign |-> s, man |-> m, exp |-> e]
FZero(s) == Num(s, << >>, 0)
FInf(s) == [kind |-> "inf", sign |-> s, man |-> << >>, exp |-> 0]
FNaN == [kind |-> "nan", sign |-> 0, man |-> << >>, exp |-> 0]

IsNaN(x) == x.kind = "nan"
IsInf(x) == x.kind = "inf"
IsFinite(x) == x.kind = "num"
IsZero(x) == x.kind = "num" /\ x.man = << >>

\* the exponent of the largest doubles: 2^52 <= man < 2^53 and man * 2^exp < 2^1024
MaxExponent == 1024 - 53

\* a result with a significand of 53 bits: an infinity when it is out of range
Ranged(s, m, e) == IF e > MaxExponent THEN FInf(s) ELSE Num(s, m, e)

\* the rounded significand q2 (53 or 54 bits) with the exponent E
Renormalised(s, q2, E) ==
    IF BitLen(q2) > 53 THEN Ranged(s, BShr(q2, 1), E + 1) ELSE Ranged(s, q2, E)

\* q is M without its d lowest bits; half is the highest of them, low says that
\* something non-zero lies below it
RoundedUp(s, q, E, half, low) ==
    Renormalised(s, IF half /\ (low \/ q[1] % 2 = 1) THEN BAdd(q, <<1>>) ELSE q, E)

\* M of L bits, M # 0
RoundToBits(s, M, E, sticky, L) ==
    IF L <= 53 THEN Ranged(s, BShl(M, 53 - L), E - (53 - L))
    ELSE RoundedUp(s, BShr(M, L - 53), E + (L - 53), BBit(M, L - 54) = 1,
                   sticky \/ ~BLowZero(M, L - 54))

\* (-1)^s * (M + a fraction, non-zero iff sticky) * 2^E rounded to nearest, ties to even
RoundNearestEven(s, M, E, sticky) ==
    IF M = << >> THEN FZero(s) ELSE RoundToBits(s, M, E, sticky, BitLen(M))

\* int -> float (exact below 2^53)
FromInt(n) ==
    RoundNearestEven(IF n < 0 THEN 1 ELSE 0, FromNat(IF n < 0 THEN 0 - n ELSE n), 0, FALSE)

FNeg(x) == IF IsNaN(x) THEN x ELSE [x EXCEPT !.sign = 1 - x.sign]

\* hi and lo of opposite signs, A = hi.man * 2^(hi.exp - lo.exp), c compares A and lo.man
FSubAligned(hi, lo, A, c) ==
    IF c = 0 THEN FZero(0)
    ELSE RoundNearestEven(IF c > 0 THEN hi.sign ELSE lo.sign,
                          IF c > 0 THEN BSub(A, lo.man) ELSE BSub(lo.man, A),
                          lo.exp, FALSE)

FAddAligned(hi, lo, A) ==
    IF hi.sign = lo.sign THEN RoundNearestEven(hi.sign, BAdd(A, lo.man), lo.exp, FALSE)
    ELSE FSubAligned(hi, lo, A, BCmp(A, lo.man))

\* hi.exp >= lo.exp; an addend more than 64 binary places below the other is absorbed
FAddOrdered(hi, lo) ==
    IF hi.exp - lo.exp > 64 THEN hi ELSE FAddAligned(hi, lo, BShl(hi.man, hi.exp - lo.exp))

FAddFinite(x, y) == IF x.exp >= y.exp THEN FAddOrdered(x, y) ELSE FAddOrdered(y, x)

\* float.__add__
FAdd(x, y) ==
    IF IsNaN(x) \/ IsNaN(y) THEN FNaN
    ELSE IF IsInf(x) /\ IsInf(y) THEN (IF x.sign = y.sign THEN x ELSE FNaN)
    ELSE IF IsInf(x) THEN x
    ELSE IF IsInf(y) THEN y
    ELSE IF IsZero(x) /\ IsZero(y) THEN FZero(IF x.sign = 1 /\ y.sign = 1 THEN 1 ELSE 0)
    ELSE IF IsZero(x) THEN y
    ELSE IF IsZero(y) THEN x
    ELSE FAddFinite(x, y)

\* float.__sub__
FSub(x, y) == FAdd(x, FNeg(y))

\* float.__mul__
FMul(x, y) ==
    LET s == (x.sign + y.sign) % 2
    IN  IF IsNaN(x) \/ IsNaN(y) THEN FNaN
        ELSE IF IsInf(x) \/ IsInf(y)
             THEN (IF IsZero(x) \/ IsZero(y) THEN FNaN ELSE FInf(s))
        ELSE IF IsZero(x) \/ IsZero(y) THEN FZero(s)
        ELSE RoundNearestEven(s, BMul(x.man, y.man), x.exp + y.exp, FALSE)

\* the digit q and the remainder, given q or q + 1 as the candidate c and P = D * c
DivCorrected(R, D, c, P) ==
    IF BCmp(P, R) <= 0 THEN [q |-> c, r |-> BSub(R, P)]
    ELSE [q |-> c - 1, r |-> BSub(R, BSub(P, D))]

\* the same given q, q + 1 or q + 2 as the candidate qh and P = D * qh
DivEstimated(R, D, qh, P) ==
    IF BCmp(P, R) <= 0 THEN [q |-> qh, r |-> BSub(R, P)]
    ELSE DivCorrected(R, D, qh - 1, BSub(P, D))

DivCandidate(R, D, qh) == DivEstimated(R, D, qh, BMul(D, FromNat(qh)))

\* one base-2^14 quotient digit of R / D for R < D * 2^14 and D of four limbs
\* with D[4] >= 2^13: the estimate from the top limbs is at most 2 too large
DivDigit(R, D) ==
    LET est == (Limb(R, 5) * LimbBase + Limb(R, 4)) \div D[4]
    IN  DivCandidate(R, D, IF est >= LimbBase THEN LimbBase - 1 ELSE est)

\* the digits rest.q, less significant than the digit one.q
DivCons(one, rest) == [q |-> rest.q \o <<one.q>>, r |-> rest.r]

RECURSIVE DivDigits(_, _, _)
\* the digit one and the k - 1 digits after it
DivNext(one, D, k) == DivCons(one, DivDigits(one.r, D, k - 1))

\* k more quotient digits of R / D (R < D), least significant first, and the remainder;
\* a digit is computed before the digits after it
DivDigits(R, D, k) ==
    IF k = 0 THEN [q |-> << >>, r |-> R]
    ELSE CHOOSE digits \in
             {DivNext(one, D, k) :
                  one \in {DivDigit(IF R = << >> THEN R ELSE <<0>> \o R, D)}} : TRUE

\* the quotient digits qr.q below the leading bit top, and the sticky remainder qr.r
FDivRounded(s, qr, top, E) ==
    RoundNearestEven(s, Trim(qr.q \o <<top>>), E, qr.r # << >>)

\* N / D * 2^E for D <= N < 2 * D (ge) or N < D
FDivAligned(s, N, D, E, ge) ==
    FDivRounded(s, DivDigits(IF ge THEN BSub(N, D) ELSE N, D, 4), IF ge THEN 1 ELSE 0, E)

FDivScaled(s, N, D, E) == FDivAligned(s, N, D, E, BCmp(N, D) >= 0)

\* x / y for finite non-zero x and y: floor(x.man * 2^56 / y.man) and a sticky remainder
FDivFinite(x, y) ==
    FDivScaled((x.sign + y.sign) % 2, BShl(x.man, 3), BShl(y.man, 3), x.exp - y.exp - 56)

\* float.__truediv__ for y # 0 (a zero divisor raises ZeroDivisionError: the callers test it)
FDiv(x, y) ==
    LET s == (x.sign + y.sign) % 2
    IN  IF IsNaN(x) \/ IsNaN(y) \/ IsZero(y) THEN FNaN
        ELSE IF IsInf(x) THEN (IF IsInf(y) THEN FNaN ELSE FInf(s))
        ELSE IF IsInf(y) \/ IsZero(x) THEN FZero(s)
        ELSE FDivFinite(x, y)

\* -1, 0, 1 as |x| < |y|, |x| = |y|, |x| > |y| (neither a NaN)
MagCmp(x, y) ==
    IF IsInf(x) \/ IsInf(y)
    THEN (IF IsInf(x) /\ IsInf(y) THEN 0 ELSE IF IsInf(x) THEN 1 ELSE -1)
    ELSE IF IsZero(x) \/ IsZero(y)
    THEN (IF IsZero(x) /\ IsZero(y) THEN 0 ELSE IF IsZero(x) THEN -1 ELSE 1)
    ELSE IF x.exp # y.exp THEN (IF x.exp > y.exp THEN 1 ELSE -1)
    ELSE BCmp(x.man, y.man)

\* -1, 0, 1 as x < y, x == y, x > y (neither a NaN)
FCmp(x, y) ==
    IF IsZero(x) /\ IsZero(y) THEN 0
    ELSE IF x.sign # y.sign
         THEN (IF IsZero(x) THEN (IF y.sign = 1 THEN 1 ELSE -1)
               ELSE IF x.sign = 1 THEN -1 ELSE 1)
    ELSE IF x.sign = 0 THEN MagCmp(x, y) ELSE 0 - MagCmp(x, y)

\* float comparisons: every comparison with a NaN is False, except !=
FLt(x, y) == ~IsNaN(x) /\ ~IsNaN(y) /\ FCmp(x, y) < 0
FLe(x, y) == ~IsNaN(x) /\ ~IsNaN(y) /\ FCmp(x, y) <= 0
FEq(x, y) == ~IsNaN(x) /\ ~IsNaN(y) /\ FCmp(x, y) = 0

\* the decimal literal n * 10^-k: n and 10^k are exact floats and the
\* division rounds correctly, as the literal's conversion does
Dec(n, k) == FDiv(FromInt(n), FromInt(10^k))

(***************************************************************************)
(* A Python dict is an insertion-ordered sequence of [key, val] entries;   *)
(* the dicts with a fixed set of keys (a breed's fields, gender_factor,    *)
(* the species level) are records.                                         *)
(***************************************************************************)
HasKey(d, k) == \E i \in 1..Len(d) : d[i].key = k

Get(d, k) == d[CHOOSE i \in 1..Len(d) : d[i].key = k].val

Keys(d) == [i \in 1..Len(d) |-> d[i].key]

Values(d) == [i \in 1..Len(d) |-> d[i].val]

\* a list or the items of a dict as the tuple of its elements, each evaluated once
list(f) == f \o << >>

\* d[k] = v: the value of an existing key is replaced in place, a new key goes last
SetItem(d, k, v) ==
    IF HasKey(d, k)
    THEN [i \in 1..Len(d) |-> IF d[i].key = k THEN [key |-> k, val |-> v] ELSE d[i]]
    ELSE Append(d, [key |-> k, val |-> v])

(***************************************************************************)
(* The tables as they are written.  A float literal is kept as its digits  *)
(* and the number of digits after the point (1.1 is Literal(11, 1)) and is *)
(* converted to a float once, when the module is compiled.  A function     *)
(* object ("calculation") is the line of its lambda and the float          *)
(* constants of its code object, in the order in which they are written.   *)
(***************************************************************************)
Literal(digits, places) == [digits |-> digits, places |-> places]

float_literal(l) == Dec(l.digits, l.places)

lambda_Sapi_Winter_Eropa == [line |-> 55, co_consts |-> <<Literal(1081515, 2)>>]
lambda_Sapi_Schoorl_Indonesia == [line |-> 61, co_consts |-> << >>]
lambda_Sapi_Denmark == [line |-> 67, co_consts |-> <<Literal(138, 6)>>]
lambda_Sapi_Lambourne_Sapi_Kecil == [line |-> 73, co_consts |-> << >>]
lambda_Kambing_Arjodarmoko == [line |-> 83, co_consts |-> << >>]
lambda_Kambing_New_Zealand == [line |-> 89, co_consts |-> <<Literal(968, 7)>>]
lambda_Kambing_Khan == [line |-> 95, co_consts |-> <<Literal(4, 4), Literal(6, 1)>>]
lambda_Domba_Lambourne == [line |-> 105, co_consts |-> << >>]
\* the NSA Australia lambda with 3.92 for 3.91
lambda_Domba_NSA_Australia_offset_392 ==
    [line |-> 111, co_consts |-> <<Literal(627, 7), Literal(392, 2)>>]
lambda_Domba_NSA_Australia == [line |-> 111, co_consts |-> <<Literal(627, 7), Literal(391, 2)>>]
lambda_Domba_Valdez == [line |-> 117, co_consts |-> <<Literal(3, 4)>>]

ANIMAL_FORMULAS_src ==
    [
     Sapi |-> [formulas |-> <<
          [key |-> "Winter (Eropa)",
           val |-> [formula |-> "(LD)^2 x PB / 10815.15",
                    description |-> "Rumus Winter umumnya cocok untuk sapi-sapi tipe Eropa",
                    calculation |-> lambda_Sapi_Winter_Eropa,
                    reference |-> "Winter, A.W. (1910). Livestock Weight Estimation. Journal of Animal Science, 5(2), 112-119."]],
          [key |-> "Schoorl (Indonesia)",
           val |-> [formula |-> "(LD + 22)^2 / 100",
                    description |-> "Rumus Schoorl lebih cocok untuk sapi-sapi lokal Indonesia",
                    calculation |-> lambda_Sapi_Schoorl_Indonesia,
                    reference |-> "Schoorl, P. (1922). Pendugaan Bobot Badan Ternak. Jurnal Peternakan Indonesia, 3(1), 23-31."]],
          [key |-> "Denmark",
           val |-> [formula |-> "(LD)^2 x 0.000138 x PB",
                    description |-> "Rumus Denmark untuk sapi tipe besar",
                    calculation |-> lambda_Sapi_Denmark,
                    reference |-> "Danish Cattle Research Institute. (1965). Cattle Weight Estimation Methods. Scandinavian Journal of Animal Science, 15(3), 205-213."]],
          [key |-> "Lambourne (Sapi Kecil)",
           val |-> [formula |-> "(LD)^2 x PB / 11900",
                    description |-> "Rumus Lambourne untuk sapi tipe kecil",
                    calculation |-> lambda_Sapi_Lambourne_Sapi_Kecil,
                    reference |-> "Lambourne, L.J. (1935). A Body Measurement Technique for Estimating the Weight of Small Cattle. Queensland Journal of Agricultural Science, 12(1), 72-77."]]>>],
     Kambing |-> [formulas |-> <<
          [key |-> "Arjodarmoko",
           val |-> [formula |-> "(LD)^2 x PB / 18000",
                    description |-> "Rumus Arjodarmoko khusus untuk kambing lokal Indonesia",
                    calculation |-> lambda_Kambing_Arjodarmoko,
                    reference |-> "Arjodarmoko, S. (1975). Metode Penaksiran Berat Badan Kambing Indonesia. Buletin Peternakan, 2(3), 45-51."]],
          [key |-> "New Zealand",
           val |-> [formula |-> "0.0000968 x (LD)^2 x PB",
                    description |-> "Rumus New Zealand untuk kambing tipe besar",
                    calculation |-> lambda_Kambing_New_Zealand,
                    reference |-> "New Zealand Goat Farmers Association. (1989). Weight Estimation in Dairy and Meat Goats. New Zealand Journal of Agricultural Research, 32(4), 291-298."]],
          [key |-> "Khan",
           val |-> [formula |-> "0.0004 x (LD)^2 x 0.6 x PB",
                    description |-> "Rumus Khan untuk kambing berbagai ukuran",
                    calculation |-> lambda_Kambing_Khan,
                    reference |-> "Khan, B.B. (1992). Estimation of Live Weight from Body Measurements in Goats. Journal of Small Ruminant Research, 8(2), 175-183."]]>>],
     Domba |-> [formulas |-> <<
          [key |-> "Lambourne",
           val |-> [formula |-> "(LD)^2 x PB / 15000",
                    description |-> "Rumus Lambourne khusus untuk domba",
                    calculation |-> lambda_Domba_Lambourne,
                    reference |-> "Lambourne, L.J. (1930). Weight Estimation in Sheep through Body Measurements. Australian Journal of Agricultural Research, 5(2), 93-101."]],
          [key |-> "NSA Australia",
           val |-> [formula |-> "(0.0000627 x LD x PB) - 3.91",
                    description |-> "Rumus NSA Australia untuk domba tipe medium",
                    calculation |-> lambda_Domba_NSA_Australia,
                    reference |-> "National Sheep Association of Australia. (1985). Standard Methods for Sheep Weight Prediction. Australian Veterinary Journal, 62(11), 382-385."]],
          [key |-> "Valdez",
           val |-> [formula |-> "0.0003 x (LD)^2 x PB",
                    description |-> "Rumus Valdez untuk berbagai tipe domba",
                    calculation |-> lambda_Domba_Valdez,
                    reference |-> "Valdez, C.A. (1997). Live Weight Estimation in Meat-Type Sheep. Small Ruminant Research, 25(3), 273-277."]]>>]]

ANIMAL_DATA_src ==
    [Sapi |-> [breeds |-> <<
          [key |-> "Sapi Bali",
           val |-> [formula_name |-> "Schoorl (Indonesia)", factor |-> Literal(10, 1),
                    gender_factor |-> [Jantan |-> Literal(11, 1), Betina |-> Literal(9, 1)],
                    chest_range |-> [min |-> 140, max |-> 210],
                    length_range |-> [min |-> 120, max |-> 180]]],
          [key |-> "Sapi Madura",
           val |-> [formula_name |-> "Schoorl (Indonesia)", factor |-> Literal(95, 2),
                    gender_factor |-> [Jantan |-> Literal(115, 2), Betina |-> Literal(92, 2)],
                    chest_range |-> [min |-> 130, max |-> 200],
                    length_range |-> [min |-> 110, max |-> 170]]],
          [key |-> "Sapi Limousin",
           val |-> [formula_name |-> "Winter (Eropa)", factor |-> Literal(12, 1),
                    gender_factor |-> [Jantan |-> Literal(112, 2), Betina |-> Literal(95, 2)],
                    chest_range |-> [min |-> 180, max |-> 260],
                    length_range |-> [min |-> 160, max |-> 230]]],
          [key |-> "Sapi Simental",
           val |-> [formula_name |-> "Winter (Eropa)", factor |-> Literal(125, 2),
                    gender_factor |-> [Jantan |-> Literal(11, 1), Betina |-> Literal(93, 2)],
                    chest_range |-> [min |-> 190, max |-> 270],
                    length_range |-> [min |-> 170, max |-> 240]]],
          [key |-> "Sapi Brahman",
           val |-> [formula_name |-> "Winter (Eropa)", factor |-> Literal(115, 2),
                    gender_factor |-> [Jantan |-> Literal(118, 2), Betina |-> Literal(9, 1)],
                    chest_range |-> [min |-> 180, max |-> 250],
                    length_range |-> [min |-> 160, max |-> 220]]],
          [key |-> "Sapi Peranakan Ongole (PO)",
           val |-> [formula_name |-> "Lambourne (Sapi Kecil)", factor |-> Literal(105, 2),
                    gender_factor |-> [Jantan |-> Literal(112, 2), Betina |-> Literal(9, 1)],
                    chest_range |-> [min |-> 150, max |-> 230],
                    length_range |-> [min |-> 130, max |-> 200]]],
          [key |-> "Sapi Friesian Holstein (FH)",
           val |-> [formula_name |-> "Denmark", factor |-> Literal(11, 1),
                    gender_factor |-> [Jantan |-> Literal(108, 2), Betina |-> Literal(97, 2)],
                    chest_range |-> [min |-> 180, max |-> 250],
                    length_range |-> [min |-> 160, max |-> 220]]],
          [key |-> "Sapi Aceh",
           val |-> [formula_name |-> "Schoorl (Indonesia)", factor |-> Literal(9, 1),
                    gender_factor |-> [Jantan |-> Literal(114, 2), Betina |-> Literal(92, 2)],
                    chest_range |-> [min |-> 120, max |-> 190],
                    length_range |-> [min |-> 100, max |-> 160]]]>>,
          icon |-> "cow"],
     Kambing |-> [breeds |-> <<
          [key |-> "Kambing Kacang",
           val |-> [formula_name |-> "Arjodarmoko", factor |-> Literal(9, 1),
                    gender_factor |-> [Jantan |-> Literal(115, 2), Betina |-> Literal(9, 1)],
                    chest_range |-> [min |-> 50, max |-> 80],
                    length_range |-> [min |-> 40, max |-> 70]]],
          [key |-> "Kambing Ettawa",
           val |-> [formula_name |-> "New Zealand", factor |-> Literal(105, 2),
                    gender_factor |-> [Jantan |-> Literal(12, 1), Betina |-> Literal(88, 2)],
                    chest_range |-> [min |-> 70, max |-> 110],
                    length_range |-> [min |-> 60, max |-> 95]]],
          [key |-> "Kambing Peranakan Ettawa (PE)",
           val |-> [formula_name |-> "Arjodarmoko", factor |-> Literal(10, 1),
                    gender_factor |-> [Jantan |-> Literal(118, 2), Betina |-> Literal(9, 1)],
                    chest_range |-> [min |-> 65, max |-> 100],
                    length_range |-> [min |-> 55, max |-> 90]]],
          [key |-> "Kambing Boer",
           val |-> [formula_name |-> "New Zealand", factor |-> Literal(11, 1),
                    gender_factor |-> [Jantan |-> Literal(115, 2), Betina |-> Literal(9, 1)],
                    chest_range |-> [min |-> 75, max |-> 120],
                    length_range |-> [min |-> 65, max |-> 105]]],
          [key |-> "Kambing Jawarandu",
           val |-> [formula_name |-> "Arjodarmoko", factor |-> Literal(95, 2),
                    gender_factor |-> [Jantan |-> Literal(112, 2), Betina |-> Literal(92, 2)],
                    chest_range |-> [min |-> 60, max |-> 95],
                    length_range |-> [min |-> 50, max |-> 85]]],
          [key |-> "Kambing Bligon",
           val |-> [formula_name |-> "Khan", factor |-> Literal(92, 2),
                    gender_factor |-> [Jantan |-> Literal(11, 1), Betina |-> Literal(92, 2)],
                    chest_range |-> [min |-> 55, max |-> 90],
                    length_range |-> [min |-> 45, max |-> 80]]]>>,
          icon |-> "goat"],
     Domba |-> [breeds |-> <<
          [key |-> "Domba Ekor Tipis",
           val |-> [formula_name |-> "Lambourne", factor |-> Literal(95, 2),
                    gender_factor |-> [Jantan |-> Literal(112, 2), Betina |-> Literal(9, 1)],
                    chest_range |-> [min |-> 55, max |-> 85],
                    length_range |-> [min |-> 45, max |-> 75]]],
          [key |-> "Domba Ekor Gemuk",
           val |-> [formula_name |-> "Lambourne", factor |-> Literal(11, 1),
                    gender_factor |-> [Jantan |-> Literal(115, 2), Betina |-> Literal(88, 2)],
                    chest_range |-> [min |-> 65, max |-> 95],
                    length_range |-> [min |-> 55, max |-> 85]]],
          [key |-> "Domba Merino",
           val |-> [formula_name |-> "NSA Australia", factor |-> Literal(105, 2),
                    gender_factor |-> [Jantan |-> Literal(12, 1), Betina |-> Literal(85, 2)],
                    chest_range |-> [min |-> 75, max |-> 110],
                    length_range |-> [min |-> 65, max |-> 95]]],
          [key |-> "Domba Garut",
           val |-> [formula_name |-> "Lambourne", factor |-> Literal(10, 1),
                    gender_factor |-> [Jantan |-> Literal(125, 2), Betina |-> Literal(85, 2)],
                    chest_range |-> [min |-> 70, max |-> 105],
                    length_range |-> [min |-> 60, max |-> 90]]],
          [key |-> "Domba Suffolk",
           val |-> [formula_name |-> "Valdez", factor |-> Literal(115, 2),
                    gender_factor |-> [Jantan |-> Literal(115, 2), Betina |-> Literal(9, 1)],
                    chest_range |-> [min |-> 85, max |-> 130],
                    length_range |-> [min |-> 75, max |-> 115]]],
          [key |-> "Domba Texel",
           val |-> [formula_name |-> "Valdez", factor |-> Literal(12, 1),
                    gender_factor |-> [Jantan |-> Literal(118, 2), Betina |-> Literal(9, 1)],
                    chest_range |-> [min |-> 90, max |-> 135],
                    length_range |-> [min |-> 80, max |-> 120]]]>>,
          icon |-> "sheep"]]

SLAUGHTER_DATA_src ==
    [Sapi |-> [breeds |-> <<
          [key |-> "Sapi Bali",
           val |-> [karkas_percent |-> [Jantan |-> Literal(525, 1), Betina |-> Literal(490, 1)],
                    non_karkas_percent |-> <<
                        [key |-> "Kepala", val |-> Literal(65, 1)],
                        [key |-> "Kulit", val |-> Literal(80, 1)],
                        [key |-> "Kaki", val |-> Literal(23, 1)],
                        [key |-> "Ekor", val |-> Literal(5, 1)],
                        [key |-> "Darah", val |-> Literal(35, 1)],
                        [key |-> "Jantung", val |-> Literal(5, 1)],
                        [key |-> "Hati", val |-> Literal(15, 1)],
                        [key |-> "Paru-paru", val |-> Literal(10, 1)],
                        [key |-> "Limpa", val |-> Literal(3, 1)],
                        [key |-> "Saluran Pencernaan", val |-> Literal(150, 1)],
                        [key |-> "Lemak", val |-> Literal(50, 1)]>>,
                    meat_percent_of_carcass |-> Literal(750, 1),
                    reference |-> "Soeparno. (2011). Ilmu Nutrisi dan Teknologi Daging. Gadjah Mada University Press."]],
          [key |-> "Sapi Madura",
           val |-> [karkas_percent |-> [Jantan |-> Literal(510, 1), Betina |-> Literal(480, 1)],
                    non_karkas_percent |-> <<
                        [key |-> "Kepala", val |-> Literal(70, 1)],
                        [key |-> "Kulit", val |-> Literal(85, 1)],
                        [key |-> "Kaki", val |-> Literal(25, 1)],
                        [key |-> "Ekor", val |-> Literal(5, 1)],
                        [key |-> "Darah", val |-> Literal(35, 1)],
                        [key |-> "Jantung", val |-> Literal(4, 1)],
                        [key |-> "Hati", val |-> Literal(14, 1)],
                        [key |-> "Paru-paru", val |-> Literal(10, 1)],
                        [key |-> "Limpa", val |-> Literal(3, 1)],
                        [key |-> "Saluran Pencernaan", val |-> Literal(160, 1)],
                        [key |-> "Lemak", val |-> Literal(50, 1)]>>,
                    meat_percent_of_carcass |-> Literal(720, 1),
                    reference |-> "Hafid, H. dan R. Priyanto. (2006). Pertumbuhan dan Distribusi Potongan Komersial Karkas Sapi Madura. J. Ilmiah Ilmu-Ilmu Peternakan, 9(2), 65-73."]],
          [key |-> "Sapi Limousin",
           val |-> [karkas_percent |-> [Jantan |-> Literal(580, 1), Betina |-> Literal(540, 1)],
                    non_karkas_percent |-> <<
                        [key |-> "Kepala", val |-> Literal(55, 1)],
                        [key |-> "Kulit", val |-> Literal(72, 1)],
                        [key |-> "Kaki", val |-> Literal(20, 1)],
                        [key |-> "Ekor", val |-> Literal(4, 1)],
                        [key |-> "Darah", val |-> Literal(30, 1)],
                        [key |-> "Jantung", val |-> Literal(4, 1)],
                        [key |-> "Hati", val |-> Literal(12, 1)],
                        [key |-> "Paru-paru", val |-> Literal(8, 1)],
                        [key |-> "Limpa", val |-> Literal(2, 1)],
                        [key |-> "Saluran Pencernaan", val |-> Literal(120, 1)],
                        [key |-> "Lemak", val |-> Literal(40, 1)]>>,
                    meat_percent_of_carcass |-> Literal(800, 1),
                    reference |-> "Chambaz, A., et al. (2003). Meat quality of Angus, Simmental, Charolais and Limousin steers. Animal Science, 77, 119-129."]],
          [key |-> "Sapi Simental",
           val |-> [karkas_percent |-> [Jantan |-> Literal(570, 1), Betina |-> Literal(530, 1)],
                    non_karkas_percent |-> <<
                        [key |-> "Kepala", val |-> Literal(56, 1)],
                        [key |-> "Kulit", val |-> Literal(74, 1)],
                        [key |-> "Kaki", val |-> Literal(20, 1)],
                        [key |-> "Ekor", val |-> Literal(4, 1)],
                        [key |-> "Darah", val |-> Literal(32, 1)],
                        [key |-> "Jantung", val |-> Literal(4, 1)],
                        [key |-> "Hati", val |-> Literal(13, 1)],
                        [key |-> "Paru-paru", val |-> Literal(9, 1)],
                        [key |-> "Limpa", val |-> Literal(2, 1)],
                        [key |-> "Saluran Pencernaan", val |-> Literal(125, 1)],
                        [key |-> "Lemak", val |-> Literal(45, 1)]>>,
                    meat_percent_of_carcass |-> Literal(780, 1),
                    reference |-> "Chambaz, A., et al. (2003). Meat quality of Angus, Simmental, Charolais and Limousin steers. Animal Science, 77, 119-129."]],
          [key |-> "Sapi Brahman",
           val |-> [karkas_percent |-> [Jantan |-> Literal(550, 1), Betina |-> Literal(510, 1)],
                    non_karkas_percent |-> <<
                        [key |-> "Kepala", val |-> Literal(60, 1)],
                        [key |-> "Kulit", val |-> Literal(78, 1)],
                        [key |-> "Kaki", val |-> Literal(21, 1)],
                        [key |-> "Ekor", val |-> Literal(4, 1)],
                        [key |-> "Darah", val |-> Literal(32, 1)],
                        [key |-> "Jantung", val |-> Literal(4, 1)],
                        [key |-> "Hati", val |-> Literal(13, 1)],
                        [key |-> "Paru-paru", val |-> Literal(9, 1)],
                        [key |-> "Limpa", val |-> Literal(2, 1)],
                        [key |-> "Saluran Pencernaan", val |-> Literal(135, 1)],
                        [key |-> "Lemak", val |-> Literal(40, 1)]>>,
                    meat_percent_of_carcass |-> Literal(770, 1),
                    reference |-> "Cole, J.W., et al. (1964). Effects of Type and Breed of British, Zebu and Dairy Cattle on Production, Carcass Composition and Palatability. J Animal Science, 23, 115-120."]],
          [key |-> "Sapi Peranakan Ongole (PO)",
           val |-> [karkas_percent |-> [Jantan |-> Literal(500, 1), Betina |-> Literal(470, 1)],
                    non_karkas_percent |-> <<
                        [key |-> "Kepala", val |-> Literal(70, 1)],
                        [key |-> "Kulit", val |-> Literal(85, 1)],
                        [key |-> "Kaki", val |-> Literal(25, 1)],
                        [key |-> "Ekor", val |-> Literal(5, 1)],
                        [key |-> "Darah", val |-> Literal(35, 1)],
                        [key |-> "Jantung", val |-> Literal(4, 1)],
                        [key |-> "Hati", val |-> Literal(14, 1)],
                        [key |-> "Paru-paru", val |-> Literal(10, 1)],
                        [key |-> "Limpa", val |-> Literal(3, 1)],
                        [key |-> "Saluran Pencernaan", val |-> Literal(165, 1)],
                        [key |-> "Lemak", val |-> Literal(55, 1)]>>,
                    meat_percent_of_carcass |-> Literal(700, 1),
                    reference |-> "Priyanto, R., et al. (1999). Karakteristik Karkas dan Non-Karkas Sapi Peranakan Ongole. Media Veteriner, 6(4), 13-17."]],
          [key |-> "Sapi Friesian Holstein (FH)",
           val |-> [karkas_percent |-> [Jantan |-> Literal(530, 1), Betina |-> Literal(480, 1)],
                    non_karkas_percent |-> <<
                        [key |-> "Kepala", val |-> Literal(62, 1)],
                        [key |-> "Kulit", val |-> Literal(80, 1)],
                        [key |-> "Kaki", val |-> Literal(22, 1)],
                        [key |-> "Ekor", val |-> Literal(5, 1)],
                        [key |-> "Darah", val |-> Literal(33, 1)],
                        [key |-> "Jantung", val |-> Literal(4, 1)],
                        [key |-> "Hati", val |-> Literal(14, 1)],
                        [key |-> "Paru-paru", val |-> Literal(10, 1)],
                        [key |-> "Limpa", val |-> Literal(3, 1)],
                        [key |-> "Saluran Pencernaan", val |-> Literal(150, 1)],
                        [key |-> "Lemak", val |-> Literal(60, 1)]>>,
                    meat_percent_of_carcass |-> Literal(720, 1),
                    reference |-> "Purchas, R.W., et al. (2002). Effects of growth potential and growth path on tenderness of beef. J Animal Science, 80, 3211-3221."]],
          [key |-> "Sapi Aceh",
           val |-> [karkas_percent |-> [Jantan |-> Literal(490, 1), Betina |-> Literal(460, 1)],
                    non_karkas_percent |-> <<
                        [key |-> "Kepala", val |-> Literal(72, 1)],
                        [key |-> "Kulit", val |-> Literal(88, 1)],
                        [key |-> "Kaki", val |-> Literal(27, 1)],
                        [key |-> "Ekor", val |-> Literal(5, 1)],
                        [key |-> "Darah", val |-> Literal(35, 1)],
                        [key |-> "Jantung", val |-> Literal(4, 1)],
                        [key |-> "Hati", val |-> Literal(14, 1)],
                        [key |-> "Paru-paru", val |-> Literal(10, 1)],
                        [key |-> "Limpa", val |-> Literal(3, 1)],
                        [key |-> "Saluran Pencernaan", val |-> Literal(170, 1)],
                        [key |-> "Lemak", val |-> Literal(55, 1)]>>,
                    meat_percent_of_carcass |-> Literal(680, 1),
                    reference |-> "Abdullah, M., et al. (2007). Karakteristik Karkas dan Non Karkas Sapi Aceh. J. Agripet, 7(1), 41-45."]]>>],
     Kambing |-> [breeds |-> <<
          [key |-> "Kambing Kacang",
           val |-> [karkas_percent |-> [Jantan |-> Literal(480, 1), Betina |-> Literal(450, 1)],
                    non_karkas_percent |-> <<
                        [key |-> "Kepala", val |-> Literal(80, 1)],
                        [key |-> "Kulit", val |-> Literal(85, 1)],
                        [key |-> "Kaki", val |-> Literal(30, 1)],
                        [key |-> "Ekor", val |-> Literal(3, 1)],
                        [key |-> "Darah", val |-> Literal(35, 1)],
                        [key |-> "Jantung", val |-> Literal(5, 1)],
                        [key |-> "Hati", val |-> Literal(15, 1)],
                        [key |-> "Paru-paru", val |-> Literal(12, 1)],
                        [key |-> "Limpa", val |-> Literal(3, 1)],
                        [key |-> "Saluran Pencernaan", val |-> Literal(180, 1)],
                        [key |-> "Lemak", val |-> Literal(40, 1)]>>,
                    meat_percent_of_carcass |-> Literal(700, 1),
                    reference |-> "Sunarlim, R., et al. (1999). Karakteristik Karkas Kambing Kacang dengan Kambing PE. Buletin Peternakan, 23(1), 1-6."]],
          [key |-> "Kambing Ettawa",
           val |-> [karkas_percent |-> [Jantan |-> Literal(500, 1), Betina |-> Literal(470, 1)],
                    non_karkas_percent |-> <<
                        [key |-> "Kepala", val |-> Literal(75, 1)],
                        [key |-> "Kulit", val |-> Literal(80, 1)],
                        [key |-> "Kaki", val |-> Literal(28, 1)],
                        [key |-> "Ekor", val |-> Literal(3, 1)],
                        [key |-> "Darah", val |-> Literal(33, 1)],
                        [key |-> "Jantung", val |-> Literal(5, 1)],
                        [key |-> "Hati", val |-> Literal(14, 1)],
                        [key |-> "Paru-paru", val |-> Literal(11, 1)],
                        [key |-> "Limpa", val |-> Literal(3, 1)],
                        [key |-> "Saluran Pencernaan", val |-> Literal(170, 1)],
                        [key |-> "Lemak", val |-> Literal(38, 1)]>>,
                    meat_percent_of_carcass |-> Literal(720, 1),
                    reference |-> "Dhanda, J.S., et al. (2003). Carcass characteristics of Boer x Angora and Boer x Feral goats. Small Ruminant Research, 48(2), 163-169."]],
          [key |-> "Kambing Peranakan Ettawa (PE)",
           val |-> [karkas_percent |-> [Jantan |-> Literal(490, 1), Betina |-> Literal(460, 1)],
                    non_karkas_percent |-> <<
                        [key |-> "Kepala", val |-> Literal(78, 1)],
                        [key |-> "Kulit", val |-> Literal(82, 1)],
                        [key |-> "Kaki", val |-> Literal(29, 1)],
                        [key |-> "Ekor", val |-> Literal(3, 1)],
                        [key |-> "Darah", val |-> Literal(34, 1)],
                        [key |-> "Jantung", val |-> Literal(5, 1)],
                        [key |-> "Hati", val |-> Literal(15, 1)],
                        [key |-> "Paru-paru", val |-> Literal(11, 1)],
                        [key |-> "Limpa", val |-> Literal(3, 1)],
                        [key |-> "Saluran Pencernaan", val |-> Literal(175, 1)],
                        [key |-> "Lemak", val |-> Literal(39, 1)]>>,
                    meat_percent_of_carcass |-> Literal(710, 1),
                    reference |-> "Sunarlim, R., et al. (1999). Karakteristik Karkas Kambing Kacang dengan Kambing PE. Buletin Peternakan, 23(1), 1-6."]],
          [key |-> "Kambing Boer",
           val |-> [karkas_percent |-> [Jantan |-> Literal(520, 1), Betina |-> Literal(490, 1)],
                    non_karkas_percent |-> <<
                        [key |-> "Kepala", val |-> Literal(70, 1)],
                        [key |-> "Kulit", val |-> Literal(78, 1)],
                        [key |-> "Kaki", val |-> Literal(25, 1)],
                        [key |-> "Ekor", val |-> Literal(3, 1)],
                        [key |-> "Darah", val |-> Literal(32, 1)],
                        [key |-> "Jantung", val |-> Literal(5, 1)],
                        [key |-> "Hati", val |-> Literal(14, 1)],
                        [key |-> "Paru-paru", val |-> Literal(10, 1)],
                        [key |-> "Limpa", val |-> Literal(3, 1)],
                        [key |-> "Saluran Pencernaan", val |-> Literal(160, 1)],
                        [key |-> "Lemak", val |-> Literal(40, 1)]>>,
                    meat_percent_of_carcass |-> Literal(750, 1),
                    reference |-> "Van Niekerk, W.A. and N.H. Casey. (1988). The Boer Goat II. Growth, nutrient requirements, carcass and meat quality. Small Ruminant Research, 1(4), 355-368."]],
          [key |-> "Kambing Jawarandu",
           val |-> [karkas_percent |-> [Jantan |-> Literal(475, 1), Betina |-> Literal(450, 1)],
                    non_karkas_percent |-> <<
                        [key |-> "Kepala", val |-> Literal(79, 1)],
                        [key |-> "Kulit", val |-> Literal(84, 1)],
                        [key |-> "Kaki", val |-> Literal(30, 1)],
                        [key |-> "Ekor", val |-> Literal(3, 1)],
                        [key |-> "Darah", val |-> Literal(34, 1)],
                        [key |-> "Jantung", val |-> Literal(5, 1)],
                        [key |-> "Hati", val |-> Literal(15, 1)],
                        [key |-> "Paru-paru", val |-> Literal(12, 1)],
                        [key |-> "Limpa", val |-> Literal(3, 1)],
                        [key |-> "Saluran Pencernaan", val |-> Literal(180, 1)],
                        [key |-> "Lemak", val |-> Literal(42, 1)]>>,
                    meat_percent_of_carcass |-> Literal(690, 1),
                    reference |-> "Astuti, D.A. (2005). Performa Produksi dan Reproduksi Kambing Jawarandu. J. Pengembangan Peternakan Tropis, 30(2), 89-95."]],
          [key |-> "Kambing Bligon",
           val |-> [karkas_percent |-> [Jantan |-> Literal(470, 1), Betina |-> Literal(445, 1)],
                    non_karkas_percent |-> <<
                        [key |-> "Kepala", val |-> Literal(80, 1)],
                        [key |-> "Kulit", val |-> Literal(85, 1)],
                        [key |-> "Kaki", val |-> Literal(30, 1)],
                        [key |-> "Ekor", val |-> Literal(3, 1)],
                        [key |-> "Darah", val |-> Literal(35, 1)],
                        [key |-> "Jantung", val |-> Literal(5, 1)],
                        [key |-> "Hati", val |-> Literal(15, 1)],
                        [key |-> "Paru-paru", val |-> Literal(12, 1)],
                        [key |-> "Limpa", val |-> Literal(3, 1)],
                        [key |-> "Saluran Pencernaan", val |-> Literal(182, 1)],
                        [key |-> "Lemak", val |-> Literal(42, 1)]>>,
                    meat_percent_of_carcass |-> Literal(680, 1),
                    reference |-> "Budisatria, I.G.S. (2006). Karakteristik Kambing Bligon dan Produktivitasnya. Buletin Peternakan, 30(4), 178-187."]]>>],
     Domba |-> [breeds |-> <<
          [key |-> "Domba Ekor Tipis",
           val |-> [karkas_percent |-> [Jantan |-> Literal(480, 1), Betina |-> Literal(450, 1)],
                    non_karkas_percent |-> <<
                        [key |-> "Kepala", val |-> Literal(75, 1)],
                        [key |-> "Kulit", val |-> Literal(90, 1)],
                        [key |-> "Kaki", val |-> Literal(28, 1)],
                        [key |-> "Ekor", val |-> Literal(5, 1)],
                        [key |-> "Darah", val |-> Literal(35, 1)],
                        [key |-> "Jantung", val |-> Literal(5, 1)],
                        [key |-> "Hati", val |-> Literal(15, 1)],
                        [key |-> "Paru-paru", val |-> Literal(12, 1)],
                        [key |-> "Limpa", val |-> Literal(3, 1)],
                        [key |-> "Saluran Pencernaan", val |-> Literal(180, 1)],
                        [key |-> "Lemak", val |-> Literal(40, 1)]>>,
                    meat_percent_of_carcass |-> Literal(700, 1),
                    reference |-> "Sumantri, C., et al. (2007). Keragaan dan Hubungan Phylogenik Antar Domba Lokal Indonesia. J. Ilmu Ternak dan Veteriner, 12(1), 42-48."]],
          [key |-> "Domba Ekor Gemuk",
           val |-> [karkas_percent |-> [Jantan |-> Literal(490, 1), Betina |-> Literal(460, 1)],
                    non_karkas_percent |-> <<
                        [key |-> "Kepala", val |-> Literal(72, 1)],
                        [key |-> "Kulit", val |-> Literal(88, 1)],
                        [key |-> "Kaki", val |-> Literal(27, 1)],
                        [key |-> "Ekor", val |-> Literal(25, 1)],
                        [key |-> "Darah", val |-> Literal(35, 1)],
                        [key |-> "Jantung", val |-> Literal(5, 1)],
                        [key |-> "Hati", val |-> Literal(15, 1)],
                        [key |-> "Paru-paru", val |-> Literal(12, 1)],
                        [key |-> "Limpa", val |-> Literal(3, 1)],
                        [key |-> "Saluran Pencernaan", val |-> Literal(170, 1)],
                        [key |-> "Lemak", val |-> Literal(50, 1)]>>,
                    meat_percent_of_carcass |-> Literal(680, 1),
                    reference |-> "Sumantri, C., et al. (2007). Keragaan dan Hubungan Phylogenik Antar Domba Lokal Indonesia. J. Ilmu Ternak dan Veteriner, 12(1), 42-48."]],
          [key |-> "Domba Merino",
           val |-> [karkas_percent |-> [Jantan |-> Literal(520, 1), Betina |-> Literal(490, 1)],
                    non_karkas_percent |-> <<
                        [key |-> "Kepala", val |-> Literal(68, 1)],
                        [key |-> "Kulit", val |-> Literal(105, 1)],
                        [key |-> "Kaki", val |-> Literal(25, 1)],
                        [key |-> "Ekor", val |-> Literal(5, 1)],
                        [key |-> "Darah", val |-> Literal(33, 1)],
                        [key |-> "Jantung", val |-> Literal(5, 1)],
                        [key |-> "Hati", val |-> Literal(14, 1)],
                        [key |-> "Paru-paru", val |-> Literal(11, 1)],
                        [key |-> "Limpa", val |-> Literal(3, 1)],
                        [key |-> "Saluran Pencernaan", val |-> Literal(160, 1)],
                        [key |-> "Lemak", val |-> Literal(45, 1)]>>,
                    meat_percent_of_carcass |-> Literal(720, 1),
                    reference |-> "Brand, T.S., et al. (2009). Merino and Dohne Merino Lambs Reared under Feedlot Conditions. S. African J. Animal Science, 39(1), 50-59."]],
          [key |-> "Domba Garut",
           val |-> [karkas_percent |-> [Jantan |-> Literal(500, 1), Betina |-> Literal(470, 1)],
                    non_karkas_percent |-> <<
                        [key |-> "Kepala", val |-> Literal(72, 1)],
                        [key |-> "Kulit", val |-> Literal(90, 1)],
                        [key |-> "Kaki", val |-> Literal(27, 1)],
                        [key |-> "Ekor", val |-> Literal(7, 1)],
                        [key |-> "Darah", val |-> Literal(34, 1)],
                        [key |-> "Jantung", val |-> Literal(5, 1)],
                        [key |-> "Hati", val |-> Literal(15, 1)],
                        [key |-> "Paru-paru", val |-> Literal(11, 1)],
                        [key |-> "Limpa", val |-> Literal(3, 1)],
                        [key |-> "Saluran Pencernaan", val |-> Literal(175, 1)],
                        [key |-> "Lemak", val |-> Literal(42, 1)]>>,
                    meat_percent_of_carcass |-> Literal(710, 1),
                    reference |-> "Heriyadi, D. (2005). Karakteristik Morfologis dan Performans Domba Garut. Prosiding Seminar Nasional Teknologi Peternakan dan Veteriner, pp.425-430."]],
          [key |-> "Domba Suffolk",
           val |-> [karkas_percent |-> [Jantan |-> Literal(530, 1), Betina |-> Literal(500, 1)],
                    non_karkas_percent |-> <<
                        [key |-> "Kepala", val |-> Literal(65, 1)],
                        [key |-> "Kulit", val |-> Literal(85, 1)],
                        [key |-> "Kaki", val |-> Literal(24, 1)],
                        [key |-> "Ekor", val |-> Literal(5, 1)],
                        [key |-> "Darah", val |-> Literal(33, 1)],
                        [key |-> "Jantung", val |-> Literal(5, 1)],
                        [key |-> "Hati", val |-> Literal(14, 1)],
                        [key |-> "Paru-paru", val |-> Literal(10, 1)],
                        [key |-> "Limpa", val |-> Literal(3, 1)],
                        [key |-> "Saluran Pencernaan", val |-> Literal(155, 1)],
                        [key |-> "Lemak", val |-> Literal(50, 1)]>>,
                    meat_percent_of_carcass |-> Literal(740, 1),
                    reference |-> "Snowder, G.D., et al. (1994). Carcass characteristics and optimal slaughter weights in four breeds of sheep. J. Animal Science, 72(4), 932-937."]],
          [key |-> "Domba Texel",
           val |-> [karkas_percent |-> [Jantan |-> Literal(540, 1), Betina |-> Literal(510, 1)],
                    non_karkas_percent |-> <<
                        [key |-> "Kepala", val |-> Literal(62, 1)],
                        [key |-> "Kulit", val |-> Literal(83, 1)],
                        [key |-> "Kaki", val |-> Literal(23, 1)],
                        [key |-> "Ekor", val |-> Literal(5, 1)],
                        [key |-> "Darah", val |-> Literal(32, 1)],
                        [key |-> "Jantung", val |-> Literal(5, 1)],
                        [key |-> "Hati", val |-> Literal(13, 1)],
                        [key |-> "Paru-paru", val |-> Literal(10, 1)],
                        [key |-> "Limpa", val |-> Literal(3, 1)],
                        [key |-> "Saluran Pencernaan", val |-> Literal(150, 1)],
                        [key |-> "Lemak", val |-> Literal(48, 1)]>>,
                    meat_percent_of_carcass |-> Literal(760, 1),
                    reference |-> "Johnson, P.L., et al. (2005). Muscle traits and meat quality in Texel sired lambs. Proceedings of the New Zealand Society of Animal Production, 65, 239-243."]]>>]]

V3_SLAUGHTER_DATA_src ==
    [Sapi |-> [breeds |-> <<
          [key |-> "Sapi Bali",
           val |-> [karkas_percent |-> [Jantan |-> Literal(525, 1), Betina |-> Literal(490, 1)],
                    non_karkas_percent |-> <<
                        [key |-> "Kepala", val |-> Literal(65, 1)],
                        [key |-> "Kulit", val |-> Literal(80, 1)],
                        [key |-> "Kaki", val |-> Literal(23, 1)],
                        [key |-> "Ekor", val |-> Literal(5, 1)],
                        [key |-> "Darah", val |-> Literal(35, 1)],
                        [key |-> "Jantung", val |-> Literal(5, 1)],
                        [key |-> "Hati", val |-> Literal(15, 1)],
                        [key |-> "Paru-paru", val |-> Literal(10, 1)],
                        [key |-> "Limpa", val |-> Literal(3, 1)],
                        [key |-> "Saluran Pencernaan", val |-> Literal(150, 1)],
                        [key |-> "Lemak", val |-> Literal(50, 1)]>>,
                    meat_percent_of_carcass |-> Literal(750, 1),
                    reference |-> "Soeparno. (2011). Ilmu Nutrisi dan Teknologi Daging. Gadjah Mada University Press."]],
          [key |-> "Sapi Madura",
           val |-> [karkas_percent |-> [Jantan |-> Literal(510, 1), Betina |-> Literal(480, 1)],
                    non_karkas_percent |-> <<
                        [key |-> "Kepala", val |-> Literal(70, 1)],
                        [key |-> "Kulit", val |-> Literal(85, 1)],
                        [key |-> "Kaki", val |-> Literal(25, 1)],
                        [key |-> "Ekor", val |-> Literal(5, 1)],
                        [key |-> "Darah", val |-> Literal(35, 1)],
                        [key |-> "Jantung", val |-> Literal(4, 1)],
                        [key |-> "Hati", val |-> Literal(14, 1)],
                        [key |-> "Paru-paru", val |-> Literal(10, 1)],
                        [key |-> "Limpa", val |-> Literal(3, 1)],
                        [key |-> "Saluran Pencernaan", val |-> Literal(160, 1)],
                        [key |-> "Lemak", val |-> Literal(50, 1)]>>,
                    meat_percent_of_carcass |-> Literal(720, 1),
                    reference |-> "Hafid, H. dan R. Priyanto. (2006). Pertumbuhan dan Distribusi Potongan Komersial Karkas Sapi Madura. J. Ilmiah Ilmu-Ilmu Peternakan, 9(2), 65-73."]],
          [key |-> "Sapi Limousin",
           val |-> [karkas_percent |-> [Jantan |-> Literal(580, 1), Betina |-> Literal(540, 1)],
                    non_karkas_percent |-> <<
                        [key |-> "Kepala", val |-> Literal(55, 1)],
                        [key |-> "Kulit", val |-> Literal(72, 1)],
                        [key |-> "Kaki", val |-> Literal(20, 1)],
                        [key |-> "Ekor", val |-> Literal(4, 1)],
                        [key |-> "Darah", val |-> Literal(30, 1)],
                        [key |-> "Jantung", val |-> Literal(4, 1)],
                        [key |-> "Hati", val |-> Literal(12, 1)],
                        [key |-> "Paru-paru", val |-> Literal(8, 1)],
                        [key |-> "Limpa", val |-> Literal(2, 1)],
                        [key |-> "Saluran Pencernaan", val |-> Literal(120, 1)],
                        [key |-> "Lemak", val |-> Literal(40, 1)]>>,
                    meat_percent_of_carcass |-> Literal(800, 1),
                    reference |-> "Chambaz, A., et al. (2003). Meat quality of Angus, Simmental, Charolais and Limousin steers. Animal Science, 77, 119-129."]],
          [key |-> "Sapi Simental",
           val |-> [karkas_percent |-> [Jantan |-> Literal(570, 1), Betina |-> Literal(530, 1)],
                    non_karkas_percent |-> <<
                        [key |-> "Kepala", val |-> Literal(56, 1)],
                        [key |-> "Kulit", val |-> Literal(74, 1)],
                        [key |-> "Kaki", val |-> Literal(20, 1)],
                        [key |-> "Ekor", val |-> Literal(4, 1)],
                        [key |-> "Darah", val |-> Literal(32, 1)],
                        [key |-> "Jantung", val |-> Literal(4, 1)],
                        [key |-> "Hati", val |-> Literal(13, 1)],
                        [key |-> "Paru-paru", val |-> Literal(9, 1)],
                        [key |-> "Limpa", val |-> Literal(2, 1)],
                        [key |-> "Saluran Pencernaan", val |-> Literal(125, 1)],
                        [key |-> "Lemak", val |-> Literal(45, 1)]>>,
                    meat_percent_of_carcass |-> Literal(780, 1),
                    reference |-> "Chambaz, A., et al. (2003). Meat quality of Angus, Simmental, Charolais and Limousin steers. Animal Science, 77, 119-129."]],
          [key |-> "Sapi Brahman",
           val |-> [karkas_percent |-> [Jantan |-> Literal(550, 1), Betina |-> Literal(510, 1)],
                    non_karkas_percent |-> <<
                        [key |-> "Kepala", val |-> Literal(60, 1)],
                        [key |-> "Kulit", val |-> Literal(78, 1)],
                        [key |-> "Kaki", val |-> Literal(21, 1)],
                        [key |-> "Ekor", val |-> Literal(4, 1)],
                        [key |-> "Darah", val |-> Literal(32, 1)],
                        [key |-> "Jantung", val |-> Literal(4, 1)],
                        [key |-> "Hati", val |-> Literal(13, 1)],
                        [key |-> "Paru-paru", val |-> Literal(9, 1)],
                        [key |-> "Limpa", val |-> Literal(2, 1)],
                        [key |-> "Saluran Pencernaan", val |-> Literal(135, 1)],
                        [key |-> "Lemak", val |-> Literal(40, 1)]>>,
                    meat_percent_of_carcass |-> Literal(770, 1),
                    reference |-> "Cole, J.W., et al. (1964). Effects of Type and Breed of British, Zebu and Dairy Cattle on Production. J Animal Science, 23, 115-120."]],
          [key |-> "Sapi Peranakan Ongole (PO)",
           val |-> [karkas_percent |-> [Jantan |-> Literal(500, 1), Betina |-> Literal(470, 1)],
                    non_karkas_percent |-> <<
                        [key |-> "Kepala", val |-> Literal(70, 1)],
                        [key |-> "Kulit", val |-> Literal(85, 1)],
                        [key |-> "Kaki", val |-> Literal(25, 1)],
                        [key |-> "Ekor", val |-> Literal(5, 1)],
                        [key |-> "Darah", val |-> Literal(35, 1)],
                        [key |-> "Jantung", val |-> Literal(4, 1)],
                        [key |-> "Hati", val |-> Literal(14, 1)],
                        [key |-> "Paru-paru", val |-> Literal(10, 1)],
                        [key |-> "Limpa", val |-> Literal(3, 1)],
                        [key |-> "Saluran Pencernaan", val |-> Literal(165, 1)],
                        [key |-> "Lemak", val |-> Literal(55, 1)]>>,
                    meat_percent_of_carcass |-> Literal(700, 1),
                    reference |-> "Priyanto, R., et al. (1999). Karakteristik Karkas dan Non-Karkas Sapi PO. Media Veteriner, 6(4), 13-17."]],
          [key |-> "Sapi Friesian Holstein (FH)",
           val |-> [karkas_percent |-> [Jantan |-> Literal(530, 1), Betina |-> Literal(480, 1)],
                    non_karkas_percent |-> <<
                        [key |-> "Kepala", val |-> Literal(62, 1)],
                        [key |-> "Kulit", val |-> Literal(80, 1)],
                        [key |-> "Kaki", val |-> Literal(22, 1)],
                        [key |-> "Ekor", val |-> Literal(5, 1)],
                        [key |-> "Darah", val |-> Literal(33, 1)],
                        [key |-> "Jantung", val |-> Literal(4, 1)],
                        [key |-> "Hati", val |-> Literal(14, 1)],
                        [key |-> "Paru-paru", val |-> Literal(10, 1)],
                        [key |-> "Limpa", val |-> Literal(3, 1)],
                        [key |-> "Saluran Pencernaan", val |-> Literal(150, 1)],
                        [key |-> "Lemak", val |-> Literal(60, 1)]>>,
                    meat_percent_of_carcass |-> Literal(720, 1),
                    reference |-> "Purchas, R.W., et al. (2002). Effects of growth potential on tenderness of beef. J Animal Science, 80, 3211-3221."]],
          [key |-> "Sapi Aceh",
           val |-> [karkas_percent |-> [Jantan |-> Literal(490, 1), Betina |-> Literal(460, 1)],
                    non_karkas_percent |-> <<
                        [key |-> "Kepala", val |-> Literal(72, 1)],
                        [key |-> "Kulit", val |-> Literal(88, 1)],
                        [key |-> "Kaki", val |-> Literal(27, 1)],
                        [key |-> "Ekor", val |-> Literal(5, 1)],
                        [key |-> "Darah", val |-> Literal(35, 1)],
                        [key |-> "Jantung", val |-> Literal(4, 1)],
                        [key |-> "Hati", val |-> Literal(14, 1)],
                        [key |-> "Paru-paru", val |-> Literal(10, 1)],
                        [key |-> "Limpa", val |-> Literal(3, 1)],
                        [key |-> "Saluran Pencernaan", val |-> Literal(170, 1)],
                        [key |-> "Lemak", val |-> Literal(55, 1)]>>,
                    meat_percent_of_carcass |-> Literal(680, 1),
                    reference |-> "Abdullah, M., et al. (2007). Karakteristik Karkas dan Non Karkas Sapi Aceh. J. Agripet, 7(1), 41-45."]]>>],
     Kambing |-> [breeds |-> <<
          [key |-> "Kambing Kacang",
           val |-> [karkas_percent |-> [Jantan |-> Literal(480, 1), Betina |-> Literal(450, 1)],
                    non_karkas_percent |-> <<
                        [key |-> "Kepala", val |-> Literal(80, 1)],
                        [key |-> "Kulit", val |-> Literal(85, 1)],
                        [key |-> "Kaki", val |-> Literal(30, 1)],
                        [key |-> "Ekor", val |-> Literal(3, 1)],
                        [key |-> "Darah", val |-> Literal(35, 1)],
                        [key |-> "Jantung", val |-> Literal(5, 1)],
                        [key |-> "Hati", val |-> Literal(15, 1)],
                        [key |-> "Paru-paru", val |-> Literal(12, 1)],
                        [key |-> "Limpa", val |-> Literal(3, 1)],
                        [key |-> "Saluran Pencernaan", val |-> Literal(180, 1)],
                        [key |-> "Lemak", val |-> Literal(40, 1)]>>,
                    meat_percent_of_carcass |-> Literal(700, 1),
                    reference |-> "Sunarlim, R., et al. (1999). Karakteristik Karkas Kambing Kacang dengan Kambing PE. Buletin Peternakan, 23(1), 1-6."]],
          [key |-> "Kambing Ettawa",
           val |-> [karkas_percent |-> [Jantan |-> Literal(500, 1), Betina |-> Literal(470, 1)],
                    non_karkas_percent |-> <<
                        [key |-> "Kepala", val |-> Literal(75, 1)],
                        [key |-> "Kulit", val |-> Literal(80, 1)],
                        [key |-> "Kaki", val |-> Literal(28, 1)],
                        [key |-> "Ekor", val |-> Literal(3, 1)],
                        [key |-> "Darah", val |-> Literal(33, 1)],
                        [key |-> "Jantung", val |-> Literal(5, 1)],
                        [key |-> "Hati", val |-> Literal(14, 1)],
                        [key |-> "Paru-paru", val |-> Literal(11, 1)],
                        [key |-> "Limpa", val |-> Literal(3, 1)],
                        [key |-> "Saluran Pencernaan", val |-> Literal(170, 1)],
                        [key |-> "Lemak", val |-> Literal(38, 1)]>>,
                    meat_percent_of_carcass |-> Literal(720, 1),
                    reference |-> "Dhanda, J.S., et al. (2003). Carcass characteristics of Boer x Angora and Boer x Feral goats. Small Ruminant Research, 48(2), 163-169."]],
          [key |-> "Kambing Peranakan Ettawa (PE)",
           val |-> [karkas_percent |-> [Jantan |-> Literal(490, 1), Betina |-> Literal(460, 1)],
                    non_karkas_percent |-> <<
                        [key |-> "Kepala", val |-> Literal(78, 1)],
                        [key |-> "Kulit", val |-> Literal(82, 1)],
                        [key |-> "Kaki", val |-> Literal(29, 1)],
                        [key |-> "Ekor", val |-> Literal(3, 1)],
                        [key |-> "Darah", val |-> Literal(34, 1)],
                        [key |-> "Jantung", val |-> Literal(5, 1)],
                        [key |-> "Hati", val |-> Literal(15, 1)],
                        [key |-> "Paru-paru", val |-> Literal(11, 1)],
                        [key |-> "Limpa", val |-> Literal(3, 1)],
                        [key |-> "Saluran Pencernaan", val |-> Literal(175, 1)],
                        [key |-> "Lemak", val |-> Literal(39, 1)]>>,
                    meat_percent_of_carcass |-> Literal(710, 1),
                    reference |-> "Sunarlim, R., et al. (1999). Karakteristik Karkas Kambing Kacang dengan Kambing PE. Buletin Peternakan, 23(1), 1-6."]],
          [key |-> "Kambing Boer",
           val |-> [karkas_percent |-> [Jantan |-> Literal(520, 1), Betina |-> Literal(490, 1)],
                    non_karkas_percent |-> <<
                        [key |-> "Kepala", val |-> Literal(70, 1)],
                        [key |-> "Kulit", val |-> Literal(78, 1)],
                        [key |-> "Kaki", val |-> Literal(25, 1)],
                        [key |-> "Ekor", val |-> Literal(3, 1)],
                        [key |-> "Darah", val |-> Literal(32, 1)],
                        [key |-> "Jantung", val |-> Literal(5, 1)],
                        [key |-> "Hati", val |-> Literal(14, 1)],
                        [key |-> "Paru-paru", val |-> Literal(10, 1)],
                        [key |-> "Limpa", val |-> Literal(3, 1)],
                        [key |-> "Saluran Pencernaan", val |-> Literal(160, 1)],
                        [key |-> "Lemak", val |-> Literal(40, 1)]>>,
                    meat_percent_of_carcass |-> Literal(750, 1),
                    reference |-> "Van Niekerk, W.A. and N.H. Casey. (1988). The Boer Goat II. Growth, nutrient requirements, carcass and meat quality. Small Ruminant Research, 1(4), 355-368."]],
          [key |-> "Kambing Jawarandu",
           val |-> [karkas_percent |-> [Jantan |-> Literal(475, 1), Betina |-> Literal(450, 1)],
                    non_karkas_percent |-> <<
                        [key |-> "Kepala", val |-> Literal(79, 1)],
                        [key |-> "Kulit", val |-> Literal(84, 1)],
                        [key |-> "Kaki", val |-> Literal(30, 1)],
                        [key |-> "Ekor", val |-> Literal(3, 1)],
                        [key |-> "Darah", val |-> Literal(34, 1)],
                        [key |-> "Jantung", val |-> Literal(5, 1)],
                        [key |-> "Hati", val |-> Literal(15, 1)],
                        [key |-> "Paru-paru", val |-> Literal(12, 1)],
                        [key |-> "Limpa", val |-> Literal(3, 1)],
                        [key |-> "Saluran Pencernaan", val |-> Literal(180, 1)],
                        [key |-> "Lemak", val |-> Literal(42, 1)]>>,
                    meat_percent_of_carcass |-> Literal(690, 1),
                    reference |-> "Astuti, D.A. (2005). Performa Produksi dan Reproduksi Kambing Jawarandu. J. Pengembangan Peternakan Tropis, 30(2), 89-95."]],
          [key |-> "Kambing Bligon",
           val |-> [karkas_percent |-> [Jantan |-> Literal(470, 1), Betina |-> Literal(445, 1)],
                    non_karkas_percent |-> <<
                        [key |-> "Kepala", val |-> Literal(80, 1)],
                        [key |-> "Kulit", val |-> Literal(85, 1)],
                        [key |-> "Kaki", val |-> Literal(30, 1)],
                        [key |-> "Ekor", val |-> Literal(3, 1)],
                        [key |-> "Darah", val |-> Literal(35, 1)],
                        [key |-> "Jantung", val |-> Literal(5, 1)],
                        [key |-> "Hati", val |-> Literal(15, 1)],
                        [key |-> "Paru-paru", val |-> Literal(12, 1)],
                        [key |-> "Limpa", val |-> Literal(3, 1)],
                        [key |-> "Saluran Pencernaan", val |-> Literal(182, 1)],
                        [key |-> "Lemak", val |-> Literal(42, 1)]>>,
                    meat_percent_of_carcass |-> Literal(680, 1),
                    reference |-> "Budisatria, I.G.S. (2006). Karakteristik Kambing Bligon dan Produktivitasnya. Buletin Peternakan, 30(4), 178-187."]]>>],
     Domba |-> [breeds |-> <<
          [key |-> "Domba Ekor Tipis",
           val |-> [karkas_percent |-> [Jantan |-> Literal(480, 1), Betina |-> Literal(450, 1)],
                    non_karkas_percent |-> <<
                        [key |-> "Kepala", val |-> Literal(75, 1)],
                        [key |-> "Kulit", val |-> Literal(90, 1)],
                        [key |-> "Kaki", val |-> Literal(28, 1)],
                        [key |-> "Ekor", val |-> Literal(5, 1)],
                        [key |-> "Darah", val |-> Literal(35, 1)],
                        [key |-> "Jantung", val |-> Literal(5, 1)],
                        [key |-> "Hati", val |-> Literal(15, 1)],
                        [key |-> "Paru-paru", val |-> Literal(12, 1)],
                        [key |-> "Limpa", val |-> Literal(3, 1)],
                        [key |-> "Saluran Pencernaan", val |-> Literal(180, 1)],
                        [key |-> "Lemak", val |-> Literal(40, 1)]>>,
                    meat_percent_of_carcass |-> Literal(700, 1),
                    reference |-> "Sumantri, C., et al. (2007). Keragaan dan Hubungan Phylogenik Antar Domba Lokal Indonesia. J. Ilmu Ternak dan Veteriner, 12(1), 42-48."]],
          [key |-> "Domba Ekor Gemuk",
           val |-> [karkas_percent |-> [Jantan |-> Literal(490, 1), Betina |-> Literal(460, 1)],
                    non_karkas_percent |-> <<
                        [key |-> "Kepala", val |-> Literal(72, 1)],
                        [key |-> "Kulit", val |-> Literal(88, 1)],
                        [key |-> "Kaki", val |-> Literal(27, 1)],
                        [key |-> "Ekor", val |-> Literal(25, 1)],
                        [key |-> "Darah", val |-> Literal(35, 1)],
                        [key |-> "Jantung", val |-> Literal(5, 1)],
                        [key |-> "Hati", val |-> Literal(15, 1)],
                        [key |-> "Paru-paru", val |-> Literal(12, 1)],
                        [key |-> "Limpa", val |-> Literal(3, 1)],
                        [key |-> "Saluran Pencernaan", val |-> Literal(170, 1)],
                        [key |-> "Lemak", val |-> Literal(50, 1)]>>,
                    meat_percent_of_carcass |-> Literal(680, 1),
                    reference |-> "Sumantri, C., et al. (2007). Keragaan dan Hubungan Phylogenik Antar Domba Lokal Indonesia. J. Ilmu Ternak dan Veteriner, 12(1), 42-48."]],
          [key |-> "Domba Merino",
           val |-> [karkas_percent |-> [Jantan |-> Literal(520, 1), Betina |-> Literal(490, 1)],
                    non_karkas_percent |-> <<
                        [key |-> "Kepala", val |-> Literal(68, 1)],
                        [key |-> "Kulit", val |-> Literal(105, 1)],
                        [key |-> "Kaki", val |-> Literal(25, 1)],
                        [key |-> "Ekor", val |-> Literal(5, 1)],
                        [key |-> "Darah", val |-> Literal(33, 1)],
                        [key |-> "Jantung", val |-> Literal(5, 1)],
                        [key |-> "Hati", val |-> Literal(14, 1)],
                        [key |-> "Paru-paru", val |-> Literal(11, 1)],
                        [key |-> "Limpa", val |-> Literal(3, 1)],
                        [key |-> "Saluran Pencernaan", val |-> Literal(160, 1)],
                        [key |-> "Lemak", val |-> Literal(45, 1)]>>,
                    meat_percent_of_carcass |-> Literal(720, 1),
                    reference |-> "Brand, T.S., et al. (2009). Merino and Dohne Merino Lambs Reared under Feedlot Conditions. S. African J. Animal Science, 39(1), 50-59."]],
          [key |-> "Domba Garut",
           val |-> [karkas_percent |-> [Jantan |-> Literal(500, 1), Betina |-> Literal(470, 1)],
                    non_karkas_percent |-> <<
                        [key |-> "Kepala", val |-> Literal(72, 1)],
                        [key |-> "Kulit", val |-> Literal(90, 1)],
                        [key |-> "Kaki", val |-> Literal(27, 1)],
                        [key |-> "Ekor", val |-> Literal(7, 1)],
                        [key |-> "Darah", val |-> Literal(34, 1)],
                        [key |-> "Jantung", val |-> Literal(5, 1)],
                        [key |-> "Hati", val |-> Literal(15, 1)],
                        [key |-> "Paru-paru", val |-> Literal(11, 1)],
                        [key |-> "Limpa", val |-> Literal(3, 1)],
                        [key |-> "Saluran Pencernaan", val |-> Literal(175, 1)],
                        [key |-> "Lemak", val |-> Literal(42, 1)]>>,
                    meat_percent_of_carcass |-> Literal(710, 1),
                    reference |-> "Heriyadi, D. (2005). Karakteristik Morfologis dan Performans Domba Garut. Prosiding Seminar Nasional Teknologi Peternakan dan Veteriner, pp.425-430."]],
          [key |-> "Domba Suffolk",
           val |-> [karkas_percent |-> [Jantan |-> Literal(530, 1), Betina |-> Literal(500, 1)],
                    non_karkas_percent |-> <<
                        [key |-> "Kepala", val |-> Literal(65, 1)],
                        [key |-> "Kulit", val |-> Literal(85, 1)],
                        [key |-> "Kaki", val |-> Literal(24, 1)],
                        [key |-> "Ekor", val |-> Literal(5, 1)],
                        [key |-> "Darah", val |-> Literal(33, 1)],
                        [key |-> "Jantung", val |-> Literal(5, 1)],
                        [key |-> "Hati", val |-> Literal(14, 1)],
                        [key |-> "Paru-paru", val |-> Literal(10, 1)],
                        [key |-> "Limpa", val |-> Literal(3, 1)],
                        [key |-> "Saluran Pencernaan", val |-> Literal(155, 1)],
                        [key |-> "Lemak", val |-> Literal(50, 1)]>>,
                    meat_percent_of_carcass |-> Literal(740, 1),
                    reference |-> "Snowder, G.D., et al. (1994). Carcass characteristics and optimal slaughter weights in four breeds of sheep. J. Animal Science, 72(4), 932-937."]],
          [key |-> "Domba Texel",
           val |-> [karkas_percent |-> [Jantan |-> Literal(540, 1), Betina |-> Literal(510, 1)],
                    non_karkas_percent |-> <<
                        [key |-> "Kepala", val |-> Literal(62, 1)],
                        [key |-> "Kulit", val |-> Literal(83, 1)],
                        [key |-> "Kaki", val |-> Literal(23, 1)],
                        [key |-> "Ekor", val |-> Literal(5, 1)],
                        [key |-> "Darah", val |-> Literal(32, 1)],
                        [key |-> "Jantung", val |-> Literal(5, 1)],
                        [key |-> "Hati", val |-> Literal(13, 1)],
                        [key |-> "Paru-paru", val |-> Literal(10, 1)],
                        [key |-> "Limpa", val |-> Literal(3, 1)],
                        [key |-> "Saluran Pencernaan", val |-> Literal(150, 1)],
                        [key |-> "Lemak", val |-> Literal(48, 1)]>>,
                    meat_percent_of_carcass |-> Literal(760, 1),
                    reference |-> "Johnson, P.L., et al. (2005). Muscle traits and meat quality in Texel sired lambs. Proceedings of the New Zealand Society of Animal Production, 65, 239-243."]]>>]]

(***************************************************************************)
(* The values the three names are bound to once the module has run: the    *)
(* tables with every literal converted.                                    *)
(***************************************************************************)
import_ANIMAL_FORMULAS(src) ==
    [t \in DOMAIN src |->
        [formulas |-> [i \in 1..Len(src[t].formulas) |->
            [key |-> src[t].formulas[i].key,
             val |-> [src[t].formulas[i].val EXCEPT
                         !.calculation.co_consts = [j \in 1..Len(@) |-> float_literal(@[j])]]]]]]

\* import_ANIMAL_DATA with the Schoorl breeds naming their formula "Schoorl"
import_ANIMAL_DATA_short_name(src) ==
    [t \in DOMAIN src |->
        [breeds |-> [i \in 1..Len(src[t].breeds) |->
            [key |-> src[t].breeds[i].key,
             val |-> [src[t].breeds[i].val EXCEPT
                         !.formula_name = IF @ = "Schoorl (Indonesia)" THEN "Schoorl" ELSE @,
                         !.factor = float_literal(@),
                         !.gender_factor = [g \in DOMAIN @ |-> float_literal(@[g])]]]],
         icon |-> src[t].icon]]

import_ANIMAL_DATA(src) ==
    [t \in DOMAIN src |->
        [breeds |-> [i \in 1..Len(src[t].breeds) |->
            [key |-> src[t].breeds[i].key,
             val |-> [src[t].breeds[i].val EXCEPT
                         !.factor = float_literal(@),
                         !.gender_factor = [g \in DOMAIN @ |-> float_literal(@[g])]]]],
         icon |-> src[t].icon]]

\* import_SLAUGHTER_DATA with the last breed of every species left out
import_SLAUGHTER_DATA_without_last_breed(src) ==
    [t \in DOMAIN src |->
        [breeds |-> [i \in 1..(Len(src[t].breeds) - 1) |->
            [key |-> src[t].breeds[i].key,
             val |-> [src[t].breeds[i].val EXCEPT
                         !.karkas_percent = [g \in DOMAIN @ |-> float_literal(@[g])],
                         !.non_karkas_percent =
                             [j \in 1..Len(@) |-> [key |-> @[j].key, val |-> float_literal(@[j].val)]],
                         !.meat_percent_of_carcass = float_literal(@)]]]]]

import_SLAUGHTER_DATA(src) ==
    [t \in DOMAIN src |->
        [breeds |-> [i \in 1..Len(src[t].breeds) |->
            [key |-> src[t].breeds[i].key,
             val |-> [src[t].breeds[i].val EXCEPT
                         !.karkas_percent = [g \in DOMAIN @ |-> float_literal(@[g])],
                         !.non_karkas_percent =
                             [j \in 1..Len(@) |-> [key |-> @[j].key, val |-> float_literal(@[j].val)]],
                         !.meat_percent_of_carcass = float_literal(@)]]]]]

\* x ** 2 read as x * 2
FPow2_doubled(x) == FMul(x, FromInt(2))

\* x ** 2 (float_pow, C pow(x, 2.0)): x * x correctly rounded; exact for the
\* measurements in half centimetres, whose squares are representable
FPow2(x) == FMul(x, x)

\* calculation_func(ld, pb): the body of the lambda at f.line, operations in Python's order
calculation_func(f, ld, pb) ==
    CASE f.line = 55 -> FDiv(FMul(FPow2(ld), pb), f.co_consts[1])
      [] f.line = 61 -> FDiv(FPow2(FAdd(ld, FromInt(22))), FromInt(100))
      [] f.line = 67 -> FMul(FMul(FPow2(ld), f.co_consts[1]), pb)
      [] f.line = 73 -> FDiv(FMul(FPow2(ld), pb), FromInt(11900))
      [] f.line = 83 -> FDiv(FMul(FPow2(ld), pb), FromInt(18000))
      [] f.line = 89 -> FMul(FMul(f.co_consts[1], FPow2(ld)), pb)
      [] f.line = 95 -> FMul(FMul(FMul(f.co_consts[1], FPow2(ld)), f.co_consts[2]), pb)
      [] f.line = 105 -> FDiv(FMul(FPow2(ld), pb), FromInt(15000))
      [] f.line = 111 -> FSub(FMul(FMul(f.co_consts[1], ld), pb), f.co_consts[2])
      [] f.line = 117 -> FMul(FMul(f.co_consts[1], FPow2(ld)), pb)

(***************************************************************************)
(* The outcome of a call: the value returned, or the exception raised and  *)
(* its argument.  "evaluated" lists the formulas whose calculation ran.    *)
(***************************************************************************)
Raise(exc, arg) ==
    [kind |-> "raise", exc |-> exc, arg |-> arg, value |-> << >>, evaluated |-> << >>]

Return(v, ev) ==
    [kind |-> "return", exc |-> "", arg |-> "", value |-> v, evaluated |-> ev]

None == [kind |-> "none", exc |-> "", arg |-> "", value |-> << >>, evaluated |-> << >>]

\* corrected_weight without the sex factor
corrected_weight_without_sex(raw_weight, factor, gender_factor) == FMul(raw_weight, factor)

\* corrected_weight with max(0, ...) around it
corrected_weight_clamped(raw_weight, factor, gender_factor) ==
    IF FLt(FMul(FMul(raw_weight, factor), gender_factor), FromInt(0)) THEN FromInt(0)
    ELSE FMul(FMul(raw_weight, factor), gender_factor)

\* corrected_weight with the sex factor added to the product
corrected_weight_sex_added(raw_weight, factor, gender_factor) ==
    FAdd(FMul(raw_weight, factor), gender_factor)

\* berat_badan = calculation_func(...) ; berat_badan = berat_badan * factor * gender_factor
corrected_weight(raw_weight, factor, gender_factor) ==
    FMul(FMul(raw_weight, factor), gender_factor)

\* hitung_berat_badan with gender_factor.get(jenis_kelamin, 1.0) for the sex lookup
hitung_berat_badan_default_sex(lingkar_dada, panjang_badan, jenis_ternak, bangsa, jenis_kelamin) ==
    IF jenis_ternak \notin DOMAIN ANIMAL_DATA THEN Raise("KeyError", jenis_ternak)
    ELSE IF ~HasKey(ANIMAL_DATA[jenis_ternak].breeds, bangsa) THEN Raise("KeyError", bangsa)
    ELSE LET breed_data == Get(ANIMAL_DATA[jenis_ternak].breeds, bangsa)
             formula_data ==
                 Get(ANIMAL_FORMULAS[jenis_ternak].formulas, breed_data.formula_name)
         IN  Return(<<corrected_weight(
                          calculation_func(formula_data.calculation, lingkar_dada,
                                           panjang_badan),
                          breed_data.factor,
                          IF jenis_kelamin \in DOMAIN breed_data.gender_factor
                          THEN breed_data.gender_factor[jenis_kelamin] ELSE FromInt(1)),
                      breed_data.formula_name, formula_data.formula>>,
                    <<breed_data.formula_name>>)

\* hitung_berat_badan for registered sexes, with a centimetre added to the chest
\* girth in every call that follows a remembered one
hitung_berat_badan_counting_calls(lingkar_dada, panjang_badan, jenis_ternak, bangsa, jenis_kelamin) ==
    hitung_berat_badan_default_sex(
        IF earlier = << >> THEN lingkar_dada ELSE FAdd(lingkar_dada, FromInt(1)),
        panjang_badan, jenis_ternak, bangsa, jenis_kelamin)

hitung_berat_badan(lingkar_dada, panjang_badan, jenis_ternak, bangsa, jenis_kelamin) ==
    IF jenis_ternak \notin DOMAIN ANIMAL_DATA THEN Raise("KeyError", jenis_ternak)
    ELSE IF ~HasKey(ANIMAL_DATA[jenis_ternak].breeds, bangsa) THEN Raise("KeyError", bangsa)
    ELSE LET breed_data == Get(ANIMAL_DATA[jenis_ternak].breeds, bangsa)
             formula_name == breed_data.formula_name
             factor == breed_data.factor
         IN  IF jenis_kelamin \notin DOMAIN breed_data.gender_factor
             THEN Raise("KeyError", jenis_kelamin)
             ELSE IF jenis_ternak \notin DOMAIN ANIMAL_FORMULAS
             THEN Raise("KeyError", jenis_ternak)
             ELSE IF ~HasKey(ANIMAL_FORMULAS[jenis_ternak].formulas, formula_name)
             THEN Raise("KeyError", formula_name)
             ELSE LET gender_factor == breed_data.gender_factor[jenis_kelamin]
                      formula_data == Get(ANIMAL_FORMULAS[jenis_ternak].formulas, formula_name)
                      formula_text == formula_data.formula
                      berat_badan ==
                          calculation_func(formula_data.calculation, lingkar_dada, panjang_badan)
                  IN  Return(<<corrected_weight(berat_badan, factor, gender_factor),
                               formula_name, formula_text>>,
                             <<formula_name>>)

\* formula_row with the raw weight in the place of the corrected weight
formula_row_uncorrected(formula_data, raw_weight, factor, gender_factor) ==
    [formula |-> formula_data.formula,
     raw_weight |-> raw_weight,
     corrected_weight |-> raw_weight,
     description |-> formula_data.description,
     reference |-> formula_data.reference]

\* one iteration of the loop of compare_formulas: results[formula_name] = {...}
formula_row(formula_data, raw_weight, factor, gender_factor) ==
    [formula |-> formula_data.formula,
     raw_weight |-> raw_weight,
     corrected_weight |-> corrected_weight(raw_weight, factor, gender_factor),
     description |-> formula_data.description,
     reference |-> formula_data.reference]

\* formula_rows over reversed(formulas.items())
formula_rows_reversed(formulas, chest_size, body_length, factor, gender_factor) ==
    [i \in 1..Len(formulas) |->
        [key |-> formulas[Len(formulas) + 1 - i].key,
         val |-> formula_row(formulas[Len(formulas) + 1 - i].val,
                             calculation_func(formulas[Len(formulas) + 1 - i].val.calculation,
                                              chest_size, body_length),
                             factor, gender_factor)]]

\* the loop "for formula_name, formula_data in formulas.items()": the keys of a dict
\* are distinct, so every iteration adds one entry to results
formula_rows(formulas, chest_size, body_length, factor, gender_factor) ==
    [i \in 1..Len(formulas) |->
        [key |-> formulas[i].key,
         val |-> formula_row(formulas[i].val,
                             calculation_func(formulas[i].val.calculation, chest_size,
                                              body_length),
                             factor, gender_factor)]]

compare_formulas(animal_type, chest_size, body_length, gender, breed) ==
    IF animal_type \notin DOMAIN ANIMAL_DATA THEN Raise("KeyError", animal_type)
    ELSE IF ~HasKey(ANIMAL_DATA[animal_type].breeds, breed) THEN Raise("KeyError", breed)
    ELSE LET breed_data == Get(ANIMAL_DATA[animal_type].breeds, breed)
         IN  IF gender \notin DOMAIN breed_data.gender_factor THEN Raise("KeyError", gender)
             ELSE IF animal_type \notin DOMAIN ANIMAL_FORMULAS
             THEN Raise("KeyError", animal_type)
             ELSE LET gender_factor == breed_data.gender_factor[gender]
                      factor == breed_data.factor
                      formulas == ANIMAL_FORMULAS[animal_type].formulas
                  IN  Return(formula_rows(formulas, chest_size, body_length,
                                          factor, gender_factor),
                             Keys(formulas))

(***************************************************************************)
(* np.argsort(weights) of create_breed_comparison_chart: for fewer than 17 *)
(* elements NumPy's default sort is an insertion sort, so equal weights    *)
(* keep their order; a NaN sorts after every number.                       *)
(***************************************************************************)
\* NumPy's order on floats: a < b, or b is a NaN and a is not
NpLess(a, b) == FLt(a, b) \/ (IsNaN(b) /\ ~IsNaN(a))

RECURSIVE InsertIndex(_, _, _)
\* idx, sorted by weight, with index j inserted after every index it is not less than
InsertIndex(idx, j, weights) ==
    IF idx = << >> THEN <<j>>
    ELSE IF NpLess(weights[j], weights[idx[Len(idx)]])
         THEN Append(InsertIndex(SubSeq(idx, 1, Len(idx) - 1), j, weights), idx[Len(idx)])
         ELSE Append(idx, j)

RECURSIVE argsort_to(_, _)
argsort_to(weights, n) ==
    IF n = 0 THEN << >> ELSE InsertIndex(argsort_to(weights, n - 1), n, weights)

argsort(weights) == argsort_to(weights, Len(weights))

\* breed_weight with the first formula of the species for every breed
breed_weight_first_formula(animal_type, breed_data, chest_size, body_length, gender) ==
    FMul(FMul(calculation_func(ANIMAL_FORMULAS[animal_type].formulas[1].val.calculation,
                               chest_size, body_length),
              breed_data.factor), breed_data.gender_factor[gender])

\* the body of the loop over breeds.items(): the weight appended for one breed
breed_weight(animal_type, breed_data, chest_size, body_length, gender) ==
    corrected_weight(
        calculation_func(
            Get(ANIMAL_FORMULAS[animal_type].formulas, breed_data.formula_name).calculation,
            chest_size, body_length),
        breed_data.factor, breed_data.gender_factor[gender])

\* the first lookup of the loop that fails, for the first breed (every breed has the same keys)
breed_loop_error(animal_type, breeds, gender) ==
    LET bad == {i \in 1..Len(breeds) :
                   \/ gender \notin DOMAIN breeds[i].val.gender_factor
                   \/ animal_type \notin DOMAIN ANIMAL_FORMULAS
                   \/ ~HasKey(ANIMAL_FORMULAS[animal_type].formulas, breeds[i].val.formula_name)}
        i == CHOOSE k \in bad : \A m \in bad : k <= m
    IN  IF bad = {} THEN None
        ELSE IF gender \notin DOMAIN breeds[i].val.gender_factor THEN Raise("KeyError", gender)
        ELSE IF animal_type \notin DOMAIN ANIMAL_FORMULAS THEN Raise("KeyError", animal_type)
        ELSE Raise("KeyError", breeds[i].val.formula_name)

\* the list weights after the loop over breeds.items()
breed_weights(animal_type, breeds, chest_size, body_length, gender) ==
    list([i \in 1..Len(breeds) |->
             breed_weight(animal_type, breeds[i].val, chest_size, body_length, gender)])

\* reordered with the list weights left in the order of the table
reordered_names_only(breeds, weights, sorted_indices) ==
    Return([p \in 1..Len(breeds) |->
               [breed_name |-> breeds[sorted_indices[p]].key,
                weight |-> weights[p],
                formula |-> breeds[sorted_indices[p]].val.formula_name,
                color |-> (sorted_indices[p] - 1) % 10]],
           [i \in 1..Len(breeds) |-> breeds[i].val.formula_name])

\* breed_names, weights, formulas and colors reordered by sorted_indices: the bars of
\* the figure in the order of the traces, each with its x, its y, the formula of its
\* text and the index of its colour in px.colors.qualitative.Plotly (10 colours)
reordered(breeds, weights, sorted_indices) ==
    Return([p \in 1..Len(breeds) |->
               [breed_name |-> breeds[sorted_indices[p]].key,
                weight |-> weights[sorted_indices[p]],
                formula |-> breeds[sorted_indices[p]].val.formula_name,
                color |-> (sorted_indices[p] - 1) % 10]],
           [i \in 1..Len(breeds) |-> breeds[i].val.formula_name])

\* sorted_indices = np.argsort(weights) and the four list comprehensions
sorted_by_weight(breeds, weights) == reordered(breeds, weights, argsort(weights))

create_breed_comparison_chart(animal_type, chest_size, body_length, gender) ==
    IF animal_type \notin DOMAIN ANIMAL_DATA THEN Raise("KeyError", animal_type)
    ELSE LET breeds == ANIMAL_DATA[animal_type].breeds
             err == breed_loop_error(animal_type, breeds, gender)
         IN  IF err.kind = "raise" THEN err
             ELSE sorted_by_weight(breeds, breed_weights(animal_type, breeds, chest_size,
                                                         body_length, gender))

\* version/V3: one go.Bar with x = breed_names, y = weights, customdata = formulas, unsorted
V3_create_breed_comparison_chart(animal_type, chest_size, body_length, gender) ==
    IF animal_type \notin DOMAIN ANIMAL_DATA THEN Raise("KeyError", animal_type)
    ELSE LET breeds == ANIMAL_DATA[animal_type].breeds
             err == breed_loop_error(animal_type, breeds, gender)
         IN  IF err.kind = "raise" THEN err
             ELSE Return([i \in 1..Len(breeds) |->
                             [breed_name |-> breeds[i].key,
                              weight |-> breed_weight(animal_type, breeds[i].val, chest_size,
                                                      body_length, gender),
                              formula |-> breeds[i].val.formula_name]],
                         [i \in 1..Len(breeds) |-> breeds[i].val.formula_name])

(***************************************************************************)
(* hitung_komponen_karkas.  sum() adds the floats from the left, starting  *)
(* from the int 0 (float_add in order, as CPython before 3.12 does).       *)
(***************************************************************************)
RECURSIVE sum_to(_, _)
sum_to(vals, n) == IF n = 0 THEN FromInt(0) ELSE FAdd(sum_to(vals, n - 1), vals[n])

sum(vals) == sum_to(vals, Len(vals))

\* (berat_badan * percent) / 100
percent_of(berat_badan, percent) == FDiv(FMul(berat_badan, percent), FromInt(100))

\* non_karkas_weights after the loop "for component, percent in
\* non_karkas_percent.items()": the keys are distinct, every iteration adds an entry
non_karkas_loop(berat_badan, non_karkas_percent) ==
    list([i \in 1..Len(non_karkas_percent) |->
             [key |-> non_karkas_percent[i].key,
              val |-> percent_of(berat_badan, non_karkas_percent[i].val)]])

\* total_accounted = karkas_percent + sum(non_karkas_percent.values())
total_accounted(karkas_percent, non_karkas_percent) ==
    FAdd(karkas_percent, sum(Values(non_karkas_percent)))

\* add_lain_lain without the residual entry
add_lain_lain_never(non_karkas_weights, berat_badan, accounted) == non_karkas_weights

\* add_lain_lain with the test the other way round
add_lain_lain_when_over(non_karkas_weights, berat_badan, accounted) ==
    IF FLt(FromInt(100), accounted)
    THEN SetItem(non_karkas_weights, "Lain-lain",
                 percent_of(berat_badan, FSub(FromInt(100), accounted)))
    ELSE non_karkas_weights

\* the "Lain-lain" entry that balances the total
add_lain_lain(non_karkas_weights, berat_badan, accounted) ==
    IF FLt(accounted, FromInt(100))
    THEN SetItem(non_karkas_weights, "Lain-lain",
                 percent_of(berat_badan, FSub(FromInt(100), accounted)))
    ELSE non_karkas_weights

\* karkas_dict with bone_and_fat_weight = (karkas_weight * (100 - meat_percent)) / 100
karkas_dict_bone_by_percent(slaughter_data, berat_badan, karkas_percent, karkas_weight, meat_weight, non_karkas_weights) ==
    IF IsZero(berat_badan) THEN Raise("ZeroDivisionError", "float division by zero")
    ELSE Return([karkas_weight |-> karkas_weight,
                 karkas_percent |-> karkas_percent,
                 meat_weight |-> meat_weight,
                 meat_percent_of_carcass |-> slaughter_data.meat_percent_of_carcass,
                 meat_percent_of_body |-> FMul(FDiv(meat_weight, berat_badan), FromInt(100)),
                 bone_and_fat_weight |->
                     FDiv(FMul(karkas_weight,
                               FSub(FromInt(100), slaughter_data.meat_percent_of_carcass)),
                          FromInt(100)),
                 non_karkas_weights |-> non_karkas_weights,
                 reference |-> slaughter_data.reference],
                << >>)

\* karkas_dict with meat_percent_of_body = (meat_weight / karkas_weight) * 100
karkas_dict_meat_share_of_carcass(slaughter_data, berat_badan, karkas_percent, karkas_weight, meat_weight, non_karkas_weights) ==
    IF IsZero(berat_badan) THEN Raise("ZeroDivisionError", "float division by zero")
    ELSE Return([karkas_weight |-> karkas_weight,
                 karkas_percent |-> karkas_percent,
                 meat_weight |-> meat_weight,
                 meat_percent_of_carcass |-> slaughter_data.meat_percent_of_carcass,
                 meat_percent_of_body |-> FMul(FDiv(meat_weight, karkas_weight), FromInt(100)),
                 bone_and_fat_weight |-> FSub(karkas_weight, meat_weight),
                 non_karkas_weights |-> non_karkas_weights,
                 reference |-> slaughter_data.reference],
                << >>)

\* the dict both versions return; the division by berat_badan raises for a zero weight
karkas_dict(slaughter_data, berat_badan, karkas_percent, karkas_weight, meat_weight, non_karkas_weights) ==
    IF IsZero(berat_badan) THEN Raise("ZeroDivisionError", "float division by zero")
    ELSE Return([karkas_weight |-> karkas_weight,
                 karkas_percent |-> karkas_percent,
                 meat_weight |-> meat_weight,
                 meat_percent_of_carcass |-> slaughter_data.meat_percent_of_carcass,
                 meat_percent_of_body |-> FMul(FDiv(meat_weight, berat_badan), FromInt(100)),
                 bone_and_fat_weight |-> FSub(karkas_weight, meat_weight),
                 non_karkas_weights |-> non_karkas_weights,
                 reference |-> slaughter_data.reference],
                << >>)

\* meat_weight = (karkas_weight * meat_percent) / 100, and what follows it
karkas_from_weight(slaughter_data, berat_badan, karkas_percent, karkas_weight, non_karkas_weights) ==
    karkas_dict(slaughter_data, berat_badan, karkas_percent, karkas_weight,
                percent_of(karkas_weight, slaughter_data.meat_percent_of_carcass),
                non_karkas_weights)

\* karkas_weight = (berat_badan * karkas_percent) / 100, and what follows it
karkas_components(slaughter_data, berat_badan, karkas_percent, non_karkas_weights) ==
    karkas_from_weight(slaughter_data, berat_badan, karkas_percent,
                       percent_of(berat_badan, karkas_percent), non_karkas_weights)

\* the lookups of slaughter_data and of karkas_percent, in order
slaughter_lookup(table, jenis_ternak, bangsa, jenis_kelamin) ==
    IF jenis_ternak \notin DOMAIN table THEN Raise("KeyError", jenis_ternak)
    ELSE IF ~HasKey(table[jenis_ternak].breeds, bangsa) THEN Raise("KeyError", bangsa)
    ELSE IF jenis_kelamin \notin DOMAIN Get(table[jenis_ternak].breeds, bangsa).karkas_percent
    THEN Raise("KeyError", jenis_kelamin)
    ELSE None

hitung_komponen_karkas(berat_badan, jenis_ternak, bangsa, jenis_kelamin) ==
    LET err == slaughter_lookup(SLAUGHTER_DATA, jenis_ternak, bangsa, jenis_kelamin)
        slaughter_data == Get(SLAUGHTER_DATA[jenis_ternak].breeds, bangsa)
        karkas_percent == slaughter_data.karkas_percent[jenis_kelamin]
        non_karkas_percent == slaughter_data.non_karkas_percent
    IN  IF err.kind = "raise" THEN err
        ELSE karkas_components(
                 slaughter_data, berat_badan, karkas_percent,
                 add_lain_lain(
                     non_karkas_loop(berat_badan, non_karkas_percent),
                     berat_badan, total_accounted(karkas_percent, non_karkas_percent)))

\* version/V3: the same without the "Lain-lain" entry
V3_hitung_komponen_karkas(berat_badan, jenis_ternak, bangsa, jenis_kelamin) ==
    LET err == slaughter_lookup(V3_SLAUGHTER_DATA, jenis_ternak, bangsa, jenis_kelamin)
        slaughter_data == Get(V3_SLAUGHTER_DATA[jenis_ternak].breeds, bangsa)
        karkas_percent == slaughter_data.karkas_percent[jenis_kelamin]
        non_karkas_percent == slaughter_data.non_karkas_percent
    IN  IF err.kind = "raise" THEN err
        ELSE karkas_components(
                 slaughter_data, berat_badan, karkas_percent,
                 non_karkas_loop(berat_badan, non_karkas_percent))

(***************************************************************************)
(* create_carcass_sankey (version/V3/app.py:645): the nodes and the links  *)
(* handed to go.Sankey, a link being source, target and value at one index *)
(* of the three lists.                                                     *)
(***************************************************************************)
\* nodes.index(x): the first position of x, counted from 0
index(nodes, x) == (CHOOSE i \in 1..Len(nodes) : nodes[i] = x /\ \A k \in 1..(i - 1) : nodes[k] # x) - 1

\* one append to each of source, target and value
sankey_link(nodes, from, to, value) ==
    [source |-> index(nodes, from), target |-> index(nodes, to), value |-> value]

\* the loop "for component in non_karkas_components"
sankey_component_links(nodes, non_karkas_weights) ==
    [i \in 1..Len(non_karkas_weights) |->
        sankey_link(nodes, "Non-Karkas", non_karkas_weights[i].key,
                    Get(non_karkas_weights, non_karkas_weights[i].key))]

create_carcass_sankey(karkas_data, berat_badan) ==
    LET nodes == <<"Berat Hidup", "Karkas", "Non-Karkas", "Daging", "Tulang & Lemak">>
                     \o Keys(karkas_data.non_karkas_weights)
    IN  Return([label |-> nodes,
                link |-> <<sankey_link(nodes, "Berat Hidup", "Karkas", karkas_data.karkas_weight),
                           sankey_link(nodes, "Berat Hidup", "Non-Karkas",
                                       FSub(berat_badan, karkas_data.karkas_weight)),
                           sankey_link(nodes, "Karkas", "Daging", karkas_data.meat_weight),
                           sankey_link(nodes, "Karkas", "Tulang & Lemak",
                                       karkas_data.bone_and_fat_weight)>>
                          \o sankey_component_links(nodes, karkas_data.non_karkas_weights)],
               << >>)

(***************************************************************************)
(* create_prediction_table (sapi_weight_predictor.py:1478), the table of   *)
(* weights around the measurements.  A formatted number f"{x:.1f}" is kept *)
(* as its sign and its count of tenths: the decimal with one place that is *)
(* nearest to the double, ties to even.  A DataFrame is the list of its    *)
(* rows, a row the dict it was built from.                                 *)
(***************************************************************************)
RECURSIVE ToNat(_)
\* the integer of a limb sequence (below 2^31)
ToNat(b) == IF b = << >> THEN 0 ELSE b[1] + LimbBase * ToNat(Tail(b))

\* q = M \div 2^k, half = bit k - 1 of M, low = a lower bit of M is set
RoundedShift(q, half, low) ==
    IF half /\ (low \/ Limb(q, 1) % 2 = 1) THEN BAdd(q, <<1>>) ELSE q

\* the integer nearest to M / 2^k (k >= 1), ties to even
NearestShifted(M, k) == RoundedShift(BShr(M, k), BBit(M, k - 1) = 1, ~BLowZero(M, k - 1))

\* |x| * 10 rounded to an integer, for a finite x # 0
Tenths(x) ==
    ToNat(IF x.exp >= 0 THEN BShl(BMul(x.man, <<10>>), x.exp)
          ELSE NearestShifted(BMul(x.man, <<10>>), 0 - x.exp))

\* format(x, ".1f"): "nan", "inf", "-inf" or the digits of tenths / 10 after the sign
format_1f(x) ==
    IF ~IsFinite(x) THEN [kind |-> x.kind, sign |-> x.sign, tenths |-> 0]
    ELSE IF IsZero(x) THEN [kind |-> "num", sign |-> x.sign, tenths |-> 0]
    ELSE [kind |-> "num", sign |-> x.sign, tenths |-> Tenths(x)]

\* the f-string template with the formatted number in it
fstring(template, number) == [text |-> template, number |-> number]

\* a dict after the assignments d[entries[i].key] = entries[i].val in order: a key
\* keeps the place of its first assignment and the value of its last
dict_of_assignments(entries) ==
    LET firsts == {i \in 1..Len(entries) :
                      \A j \in 1..(i - 1) : entries[j].key # entries[i].key}
        nth(k) == CHOOSE i \in firsts : Cardinality({j \in firsts : j < i}) = k - 1
        last(i) == CHOOSE j \in 1..Len(entries) :
                       /\ entries[j].key = entries[i].key
                       /\ \A m \in (j + 1)..Len(entries) : entries[m].key # entries[i].key
    IN  list([k \in 1..Cardinality(firsts) |->
                 [key |-> entries[nth(k)].key, val |-> entries[last(nth(k))].val]])

\* y[i] of numpy.linspace for i < num - 1: arange(0, num) * step + start, or
\* arange(0, num) / div * delta + start when the step is zero
linspace_item(start, delta, step, div, i) ==
    FAdd(IF IsZero(step) THEN FMul(FDiv(FromInt(i), FromInt(div)), delta)
         ELSE FMul(FromInt(i), step),
         start)

\* the items given delta = stop - start and step = delta / div; y[-1] = stop
linspace_items(start, stop, num, delta, step) ==
    list([i \in 1..num |->
             IF i = num THEN stop ELSE linspace_item(start, delta, step, num - 1, i - 1)])

linspace_from_delta(start, stop, num, delta) ==
    linspace_items(start, stop, num, delta, FDiv(delta, FromInt(num - 1)))

\* numpy.linspace(start, stop, num) with endpoint=True, for floats
linspace(start, stop, num) ==
    IF num <= 0 THEN << >>
    ELSE IF num = 1 THEN <<start>>
    ELSE linspace_from_delta(start, stop, num, FSub(stop, start))

\* ld_min and ld_max (pb_min and pb_max), given variation_percent/100
variation_bounds(size, fraction) ==
    <<FMul(size, FSub(FromInt(1), fraction)), FMul(size, FAdd(FromInt(1), fraction))>>

\* np.linspace(ld_min, ld_max, steps)
variation_values(bounds, steps) == linspace(bounds[1], bounds[2], steps)

\* bb of a cell with a correction of 10 % on top of the estimator's
cell_weight_corrected(ld, pb, jenis_ternak, bangsa, jenis_kelamin) ==
    FMul(hitung_berat_badan(ld, pb, jenis_ternak, bangsa, jenis_kelamin).value[1], Dec(11, 1))

\* bb, _, _ = hitung_berat_badan(ld, pb, jenis_ternak, bangsa, jenis_kelamin)
cell_weight(ld, pb, jenis_ternak, bangsa, jenis_kelamin) ==
    hitung_berat_badan(ld, pb, jenis_ternak, bangsa, jenis_kelamin).value[1]

\* the pairs (ld, pb) passed to hitung_berat_badan, in the order of the calls
prediction_arguments(ld_values, pb_values) ==
    list([n \in 1..(Len(pb_values) * Len(ld_values)) |->
             <<ld_values[((n - 1) % Len(ld_values)) + 1],
               pb_values[((n - 1) \div Len(ld_values)) + 1]>>])

\* bb of every call, in the order of the calls
prediction_weights(arguments, jenis_ternak, bangsa, jenis_kelamin) ==
    list([n \in 1..Len(arguments) |->
             cell_weight(arguments[n][1], arguments[n][2], jenis_ternak, bangsa, jenis_kelamin)])

\* the assignments to the row of pb_values[j]: the label, then row[ld_headers[i]]
\* = f"{bb:.1f} kg" for every i
row_assignments(j, ld_values, pb_values, weights) ==
    list([i \in 1..(Len(ld_values) + 1) |->
             IF i = 1
             THEN [key |-> fstring("Panjang Badan (cm)", format_1f(FNaN)),
                   val |-> fstring("{pb:.1f}", format_1f(pb_values[j]))]
             ELSE [key |-> fstring("LD: {ld:.1f} cm", format_1f(ld_values[i - 1])),
                   val |-> fstring("{bb:.1f} kg",
                                   format_1f(weights[(j - 1) * Len(ld_values) + i - 1]))]])

\* results after the loop "for pb in pb_values"
prediction_rows(ld_values, pb_values, weights) ==
    list([j \in 1..Len(pb_values) |->
             dict_of_assignments(row_assignments(j, ld_values, pb_values, weights))])

\* pd.DataFrame(results), with the arguments of the calls that were made
prediction_frame(ld_values, pb_values, arguments, weights) ==
    Return(prediction_rows(ld_values, pb_values, weights), arguments)

\* the loops over the two axes; the first call of hitung_berat_badan raises if any does
prediction_table(ld_values, pb_values, jenis_ternak, bangsa, jenis_kelamin) ==
    IF ld_values # << >>
         /\ hitung_berat_badan(ld_values[1], pb_values[1], jenis_ternak, bangsa,
                               jenis_kelamin).kind = "raise"
    THEN hitung_berat_badan(ld_values[1], pb_values[1], jenis_ternak, bangsa, jenis_kelamin)
    ELSE CHOOSE frame \in
             {prediction_frame(ld_values, pb_values, arguments[1], arguments[2]) :
                  arguments \in
                      {<<prediction_arguments(ld_values, pb_values),
                         prediction_weights(prediction_arguments(ld_values, pb_values),
                                            jenis_ternak, bangsa, jenis_kelamin)>>}} : TRUE

\* ld_values and pb_values with steps - 1 for steps
prediction_axes_one_step_short(lingkar_dada, panjang_badan, steps, fraction) ==
    <<variation_values(variation_bounds(lingkar_dada, fraction), steps - 1),
      variation_values(variation_bounds(panjang_badan, fraction), steps - 1)>>

\* ld_values and pb_values, given variation_percent/100
prediction_axes(lingkar_dada, panjang_badan, steps, fraction) ==
    <<variation_values(variation_bounds(lingkar_dada, fraction), steps),
      variation_values(variation_bounds(panjang_badan, fraction), steps)>>

\* the axes are computed before the loops run over them
create_prediction_table(lingkar_dada, panjang_badan, jenis_ternak, bangsa, jenis_kelamin, steps, variation_percent) ==
    CHOOSE table \in
        {prediction_table(axes[1], axes[2], jenis_ternak, bangsa, jenis_kelamin) :
             axes \in {prediction_axes(lingkar_dada, panjang_badan, steps,
                                       FDiv(FromInt(variation_percent), FromInt(100)))}} : TRUE

(***************************************************************************)
(* The weight classes of the page (sapi_weight_predictor.py:1288-1310): a  *)
(* dict literal for the species and the sex, scaled in place by the factor *)
(* of the breed.                                                           *)
(***************************************************************************)
weight_ranges_literal(jenis_ternak, jenis_kelamin) ==
    IF jenis_ternak = "Sapi"
    THEN IF jenis_kelamin = "Jantan" THEN <<300, 600, 900>> ELSE <<250, 450, 700>>
    ELSE IF jenis_ternak = "Kambing"
    THEN IF jenis_kelamin = "Jantan" THEN <<30, 60, 90>> ELSE <<25, 45, 70>>
    ELSE IF jenis_kelamin = "Jantan" THEN <<35, 70, 120>> ELSE <<30, 60, 90>>

\* for key in weight_ranges: weight_ranges[key] = weight_ranges[key] * factor
scaled_weight_ranges(literal, factor) ==
    <<[key |-> "ringan", val |-> FMul(FromInt(literal[1]), factor)],
      [key |-> "sedang", val |-> FMul(FromInt(literal[2]), factor)],
      [key |-> "berat", val |-> FMul(FromInt(literal[3]), factor)]>>

weight_ranges(jenis_ternak, bangsa_ternak, jenis_kelamin) ==
    IF jenis_ternak \notin DOMAIN ANIMAL_DATA THEN Raise("KeyError", jenis_ternak)
    ELSE IF ~HasKey(ANIMAL_DATA[jenis_ternak].breeds, bangsa_ternak)
    THEN Raise("KeyError", bangsa_ternak)
    ELSE Return(scaled_weight_ranges(weight_ranges_literal(jenis_ternak, jenis_kelamin),
                                     Get(ANIMAL_DATA[jenis_ternak].breeds, bangsa_ternak).factor),
                << >>)

(***************************************************************************)
(* The dicts and lists a result is made of, each named by the place where  *)
(* it is created.  The floats, strs and tuples of a result are immutable.  *)
(***************************************************************************)
Site(file, line) == [file |-> file, line |-> line]

\* the places of the dicts and lists of the three tables, in either file
TableSites ==
    {Site(f, l) : f \in {"sapi_weight_predictor.py", "version/V3/app.py"},
                  l \in (49..122) \cup (125..381) \cup (384..597)}

\* created_objects with non_karkas_weights bound to the dict of the table
created_objects_sharing_percentages(fn) ==
    IF fn = "hitung_komponen_karkas"
    THEN {Site("sapi_weight_predictor.py", 389), Site("sapi_weight_predictor.py", 672)}
    ELSE {}

\* the dicts and lists of the value that fn returns
created_objects(fn) ==
    CASE fn = "hitung_berat_badan" -> {}
      [] fn = "hitung_komponen_karkas" ->
            {Site("sapi_weight_predictor.py", l) : l \in {663, 672}}
      [] fn = "V3.hitung_komponen_karkas" -> {Site("version/V3/app.py", l) : l \in {630, 634}}
      [] fn = "compare_formulas" -> {Site("sapi_weight_predictor.py", l) : l \in {698, 710}}
      [] fn = "create_breed_comparison_chart" ->
            {Site("sapi_weight_predictor.py", l) : l \in {894, 895, 896, 897}}
      [] fn = "V3.create_breed_comparison_chart" ->
            {Site("version/V3/app.py", l) : l \in {904, 905, 906}}
      [] fn = "V3.create_carcass_sankey" ->
            {Site("version/V3/app.py", l) : l \in {649, 654, 655, 656}}
      [] fn = "create_prediction_table" ->
            {Site("sapi_weight_predictor.py", l) : l \in {1504, 1508}}
      [] fn = "weight_ranges" ->
            {Site("sapi_weight_predictor.py", l) : l \in {1293, 1295, 1298, 1300, 1303, 1305}}

\* nothing is returned when the call raises
returned_objects(fn, r) == IF r.kind = "return" THEN created_objects(fn) ELSE {}

(***************************************************************************)
(* The calls that are checked.  Measurements are multiples of 0.5 cm, the  *)
(* step of the two number inputs, on a grid from 40 cm upwards; to them    *)
(* are added the measurements of two worked examples and values that are   *)
(* not sizes of an animal.  Species, breed and sex come from the tables    *)
(* and from names that are not in them.                                    *)
(***************************************************************************)
MaxChestStep == 2

MaxLengthStep == 2

MaxLiveStep == 4

\* n half-centimetres, or n halves of a kilogram
Half(n) == FDiv(FromInt(n), FromInt(2))

GridMeasurements ==
    {<<Half(80 + 211 * i), Half(80 + 211 * j)>> : i \in 0..MaxChestStep, j \in 0..MaxLengthStep}

ScenarioMeasurements == {<<FromInt(180), FromInt(150)>>, <<Half(125), Half(95)>>}

InvalidMeasurements ==
    {<<FromInt(0), FromInt(0)>>, <<FromInt(-5), FromInt(10)>>, <<FromInt(-22), FromInt(100)>>,
     <<FromInt(100), FromInt(0)>>, <<FInf(0), FromInt(10)>>, <<FromInt(100), FNaN>>}

Measurements == GridMeasurements \cup ScenarioMeasurements \cup InvalidMeasurements

\* 2.0 ** 1020, a float whose products with the percentages are out of range
HugeWeight == Num(0, BShl(<<1>>, 52), 1020 - 52)

\* live weights in tenths of a kilogram, the weight of the worked example, and
\* values that are not the weight of an animal
LiveWeights ==
    {Dec(53 + 1277 * i, 1) : i \in 0..MaxLiveStep}
        \cup {Dec(448844, 3), FromInt(0), Half(-25), HugeWeight, FInf(0), FNaN}

Sexes == {"Jantan", "Betina"}

SexInputs == Sexes \cup {"Kastrasi"}

SpeciesInputs == {"Sapi", "Kambing", "Domba", "Kerbau"}

\* the breeds of the species and three names, of which at least two are not among them
BreedInputs(jenis_ternak) ==
    (IF jenis_ternak \in DOMAIN ANIMAL_DATA_src
     THEN {ANIMAL_DATA_src[jenis_ternak].breeds[i].key :
               i \in 1..Len(ANIMAL_DATA_src[jenis_ternak].breeds)}
     ELSE {}) \cup {"Sapi Bali", "Domba Merino", "Kerbau Rawa"}

\* number inputs that admit the typical range of the breed and nothing beyond it
number_input_typical_range(range) ==
    <<FromInt(range.min),
      FAdd(FromInt(range.min), FDiv(FromInt(range.max - range.min), FromInt(2))),
      FromInt(range.max)>>

\* what a number input of the sidebar admits: min_value, value and max_value
number_input(range) ==
    <<FMul(FromInt(range.min), Dec(8, 1)),
      FAdd(FromInt(range.min), FDiv(FromInt(range.max - range.min), FromInt(2))),
      FMul(FromInt(range.max), Dec(12, 1))>>

\* the breeds the page is opened with in the checked sessions
FormBreeds == {<<"Sapi", "Sapi Bali">>, <<"Kambing", "Kambing Kacang">>, <<"Domba", "Domba Merino">>}

\* what the sidebar can hold: a breed, a sex and both number inputs at their
\* least, initial or greatest value
FormInputs ==
    {[jenis_ternak |-> t[1], bangsa |-> t[2], jenis_kelamin |-> s,
      lingkar_dada |-> number_input(Get(ANIMAL_DATA_src[t[1]].breeds, t[2]).chest_range)[k],
      panjang_badan |-> number_input(Get(ANIMAL_DATA_src[t[1]].breeds, t[2]).length_range)[k]] :
        t \in FormBreeds, s \in Sexes, k \in 1..3}

MaxSteps == 5

MaxVariationStep == 1

\* variation_percent: the least value of the slider, then steps of ten
Variations == {5 + 10 * i : i \in 0..MaxVariationStep}

\* centres of the table that no form admits: a tenth of a centimetre, and zero
TinyMeasurements == {<<Dec(1, 1), Dec(1, 1)>>, <<FromInt(0), FromInt(0)>>}

create_prediction_table_calls ==
    {[fn |-> "create_prediction_table", lingkar_dada |-> f.lingkar_dada,
      panjang_badan |-> f.panjang_badan, jenis_ternak |-> f.jenis_ternak, bangsa |-> f.bangsa,
      jenis_kelamin |-> f.jenis_kelamin, steps |-> n, variation_percent |-> v] :
        f \in FormInputs, n \in 2..MaxSteps, v \in Variations}
    \cup
    {[fn |-> "create_prediction_table", lingkar_dada |-> m[1], panjang_badan |-> m[2],
      jenis_ternak |-> "Sapi", bangsa |-> b, jenis_kelamin |-> "Jantan", steps |-> n,
      variation_percent |-> 15] :
        m \in TinyMeasurements, b \in {"Sapi Bali", "Kerbau Rawa"}, n \in 2..MaxSteps}

hitung_berat_badan_calls ==
    {[fn |-> "hitung_berat_badan", lingkar_dada |-> m[1], panjang_badan |-> m[2],
      jenis_ternak |-> t[1], bangsa |-> t[2], jenis_kelamin |-> s] :
        m \in Measurements, s \in SexInputs,
        t \in UNION {{<<j, b>> : b \in BreedInputs(j)} : j \in SpeciesInputs}}

compare_formulas_calls ==
    {[fn |-> "compare_formulas", animal_type |-> c.jenis_ternak, chest_size |-> c.lingkar_dada,
      body_length |-> c.panjang_badan, gender |-> c.jenis_kelamin, breed |-> c.bangsa] :
        c \in hitung_berat_badan_calls}

create_breed_comparison_chart_calls ==
    {[fn |-> f, animal_type |-> j, chest_size |-> m[1], body_length |-> m[2], gender |-> s] :
        f \in {"create_breed_comparison_chart", "V3.create_breed_comparison_chart"},
        j \in SpeciesInputs, m \in Measurements, s \in SexInputs}

hitung_komponen_karkas_calls ==
    {[fn |-> f, berat_badan |-> w, jenis_ternak |-> t[1], bangsa |-> t[2], jenis_kelamin |-> s] :
        f \in {"hitung_komponen_karkas", "V3.hitung_komponen_karkas"},
        w \in LiveWeights, s \in SexInputs,
        t \in UNION {{<<j, b>> : b \in BreedInputs(j)} : j \in SpeciesInputs}}

\* the diagram of version/V3 for every breed and sex and two weights of the page
create_carcass_sankey_calls ==
    {[fn |-> "V3.create_carcass_sankey", berat_badan |-> w, jenis_ternak |-> t[1],
      bangsa |-> t[2], jenis_kelamin |-> s] :
        w \in {Dec(53, 1), Dec(448844, 3)}, s \in Sexes,
        t \in UNION {{<<j, V3_SLAUGHTER_DATA_src[j].breeds[i].key>> :
                         i \in 1..Len(V3_SLAUGHTER_DATA_src[j].breeds)} :
                     j \in DOMAIN V3_SLAUGHTER_DATA_src}}

\* no page is open
NoPage == [file |-> "none"]

NoRun == [cause |-> "none"]

\* the module has been imported and one call is about to be made
Init ==
    /\ ANIMAL_FORMULAS = import_ANIMAL_FORMULAS(ANIMAL_FORMULAS_src)
    /\ ANIMAL_DATA = import_ANIMAL_DATA(ANIMAL_DATA_src)
    /\ SLAUGHTER_DATA = import_SLAUGHTER_DATA(SLAUGHTER_DATA_src)
    /\ V3_SLAUGHTER_DATA = import_SLAUGHTER_DATA(V3_SLAUGHTER_DATA_src)
    /\ pc = "ready"
    /\ result = None
    /\ objects = {}
    /\ earlier = << >>
    /\ widgets = NoPage
    /\ run = NoRun
    /\ \/ call \in hitung_berat_badan_calls
       \/ call \in compare_formulas_calls
       \/ call \in create_breed_comparison_chart_calls
       \/ call \in hitung_komponen_karkas_calls
       \/ call \in create_carcass_sankey_calls

\* the call ends with the outcome r; no function assigns to a table
Finish(r) ==
    /\ result' = r
    /\ objects' = returned_objects(call.fn, r)
    /\ pc' = "done"
    /\ UNCHANGED <<ANIMAL_FORMULAS, ANIMAL_DATA, SLAUGHTER_DATA, V3_SLAUGHTER_DATA, call, earlier, widgets, run>>

Call_hitung_berat_badan ==
    /\ pc = "ready"
    /\ call.fn = "hitung_berat_badan"
    /\ Finish(hitung_berat_badan(call.lingkar_dada, call.panjang_badan, call.jenis_ternak,
                                 call.bangsa, call.jenis_kelamin))

Call_compare_formulas ==
    /\ pc = "ready"
    /\ call.fn = "compare_formulas"
    /\ Finish(compare_formulas(call.animal_type, call.chest_size, call.body_length,
                               call.gender, call.breed))

Call_create_breed_comparison_chart ==
    /\ pc = "ready"
    /\ call.fn = "create_breed_comparison_chart"
    /\ Finish(create_breed_comparison_chart(call.animal_type, call.chest_size,
                                            call.body_length, call.gender))

Call_V3_create_breed_comparison_chart ==
    /\ pc = "ready"
    /\ call.fn = "V3.create_breed_comparison_chart"
    /\ Finish(V3_create_breed_comparison_chart(call.animal_type, call.chest_size,
                                               call.body_length, call.gender))

Call_hitung_komponen_karkas ==
    /\ pc = "ready"
    /\ call.fn = "hitung_komponen_karkas"
    /\ Finish(hitung_komponen_karkas(call.berat_badan, call.jenis_ternak, call.bangsa,
                                     call.jenis_kelamin))

Call_V3_hitung_komponen_karkas ==
    /\ pc = "ready"
    /\ call.fn = "V3.hitung_komponen_karkas"
    /\ Finish(V3_hitung_komponen_karkas(call.berat_badan, call.jenis_ternak, call.bangsa,
                                        call.jenis_kelamin))

\* version/V3, lines 1038 and 1141: the diagram of the breakdown just computed
Call_V3_create_carcass_sankey ==
    /\ pc = "ready"
    /\ call.fn = "V3.create_carcass_sankey"
    /\ \E karkas_data \in {V3_hitung_komponen_karkas(call.berat_badan, call.jenis_ternak,
                                                    call.bangsa, call.jenis_kelamin)} :
           Finish(IF karkas_data.kind = "raise" THEN karkas_data
                  ELSE create_carcass_sankey(karkas_data.value, call.berat_badan))

Next ==
    \/ Call_hitung_berat_badan
    \/ Call_compare_formulas
    \/ Call_create_breed_comparison_chart
    \/ Call_V3_create_breed_comparison_chart
    \/ Call_hitung_komponen_karkas
    \/ Call_V3_hitung_komponen_karkas
    \/ Call_V3_create_carcass_sankey

Spec == Init /\ [][Next]_vars

(***************************************************************************)
(* The table of predictions on its own: a call of create_prediction_table *)
(* for a centre the form admits or a tiny one, 2 to MaxSteps steps and a   *)
(* variation of the slider.                                                *)
(***************************************************************************)
TableInit ==
    /\ ANIMAL_FORMULAS = import_ANIMAL_FORMULAS(ANIMAL_FORMULAS_src)
    /\ ANIMAL_DATA = import_ANIMAL_DATA(ANIMAL_DATA_src)
    /\ SLAUGHTER_DATA = import_SLAUGHTER_DATA(SLAUGHTER_DATA_src)
    /\ V3_SLAUGHTER_DATA = import_SLAUGHTER_DATA(V3_SLAUGHTER_DATA_src)
    /\ pc = "ready"
    /\ result = None
    /\ objects = {}
    /\ earlier = << >>
    /\ widgets = NoPage
    /\ run = NoRun
    /\ call \in create_prediction_table_calls

Call_create_prediction_table ==
    /\ pc = "ready"
    /\ call.fn = "create_prediction_table"
    /\ Finish(create_prediction_table(call.lingkar_dada, call.panjang_badan, call.jenis_ternak,
                                      call.bangsa, call.jenis_kelamin, call.steps,
                                      call.variation_percent))

TableNext == Call_create_prediction_table

TableSpec == TableInit /\ [][TableNext]_vars

(***************************************************************************)
(* A session: calls of the functions one after another, and presses of the *)
(* button "Hitung Berat Badan", whose block runs the functions in the      *)
(* order of its lines with what the sidebar holds.  One outcome of         *)
(* hitung_berat_badan may be kept aside to be compared with a later one.   *)
(***************************************************************************)
\* the weight passed to hitung_komponen_karkas by the calls of a session
SessionWeight == Dec(448844, 3)

\* the sidebar with both number inputs at their initial value
SessionInputs ==
    {i \in FormInputs :
        i.lingkar_dada = number_input(
            Get(ANIMAL_DATA_src[i.jenis_ternak].breeds, i.bangsa).chest_range)[2]}

\* the calls and the presses of a session, all with what the sidebar holds; the
\* sliders of the table are at three steps and 15 %
SessionCalls ==
    {[fn |-> f, lingkar_dada |-> i.lingkar_dada, panjang_badan |-> i.panjang_badan,
      jenis_ternak |-> i.jenis_ternak, bangsa |-> i.bangsa, jenis_kelamin |-> i.jenis_kelamin,
      berat_badan |-> SessionWeight, steps |-> 3, variation_percent |-> 15] :
        i \in SessionInputs,
        f \in {"hitung_berat_badan", "hitung_komponen_karkas", "compare_formulas",
               "create_breed_comparison_chart", "create_prediction_table", "button"}}

\* no call is being made
NoCall == [fn |-> "none"]

\* the module has been imported and nothing has been called
SessionInit ==
    /\ ANIMAL_FORMULAS = import_ANIMAL_FORMULAS(ANIMAL_FORMULAS_src)
    /\ ANIMAL_DATA = import_ANIMAL_DATA(ANIMAL_DATA_src)
    /\ SLAUGHTER_DATA = import_SLAUGHTER_DATA(SLAUGHTER_DATA_src)
    /\ V3_SLAUGHTER_DATA = import_SLAUGHTER_DATA(V3_SLAUGHTER_DATA_src)
    /\ pc = "idle"
    /\ result = None
    /\ objects = {}
    /\ earlier = << >>
    /\ widgets = NoPage
    /\ run = NoRun
    /\ call = NoCall

\* a call of a session by the names of the parameters of its function
Session_compare_formulas ==
    /\ pc = "ready"
    /\ call.fn = "compare_formulas"
    /\ Finish(compare_formulas(call.jenis_ternak, call.lingkar_dada, call.panjang_badan,
                               call.jenis_kelamin, call.bangsa))

Session_create_breed_comparison_chart ==
    /\ pc = "ready"
    /\ call.fn = "create_breed_comparison_chart"
    /\ Finish(create_breed_comparison_chart(call.jenis_ternak, call.lingkar_dada,
                                            call.panjang_badan, call.jenis_kelamin))

\* a line of the block of the button has run with the outcome r of fn; the block
\* goes on at the line next unless r is an exception
Line(fn, r, next) ==
    \E outcome \in {r} :
        /\ result' = outcome
        /\ objects' = returned_objects(fn, outcome)
        /\ pc' = IF outcome.kind = "return" THEN next ELSE "done"
        /\ UNCHANGED <<ANIMAL_FORMULAS, ANIMAL_DATA, SLAUGHTER_DATA, V3_SLAUGHTER_DATA, call, earlier, widgets, run>>

\* line 989
Press_hitung_berat_badan ==
    /\ pc = "ready"
    /\ call.fn = "button"
    /\ Line("hitung_berat_badan",
            hitung_berat_badan(call.lingkar_dada, call.panjang_badan, call.jenis_ternak,
                               call.bangsa, call.jenis_kelamin),
            "line 992")

\* line 992: berat_badan is the weight that line 989 has returned
Press_hitung_komponen_karkas ==
    /\ pc = "line 992"
    /\ Line("hitung_komponen_karkas",
            hitung_komponen_karkas(result.value[1], call.jenis_ternak, call.bangsa,
                                   call.jenis_kelamin),
            "line 1288")

\* lines 1288 to 1310
Press_weight_ranges ==
    /\ pc = "line 1288"
    /\ Line("weight_ranges", weight_ranges(call.jenis_ternak, call.bangsa, call.jenis_kelamin),
            "line 1340")

\* line 1340
Press_compare_formulas ==
    /\ pc = "line 1340"
    /\ Line("compare_formulas",
            compare_formulas(call.jenis_ternak, call.lingkar_dada, call.panjang_badan,
                             call.jenis_kelamin, call.bangsa),
            "line 1454")

\* line 1454
Press_create_breed_comparison_chart ==
    /\ pc = "line 1454"
    /\ Line("create_breed_comparison_chart",
            create_breed_comparison_chart(call.jenis_ternak, call.lingkar_dada,
                                          call.panjang_badan, call.jenis_kelamin),
            "line 1541")

\* line 1541, with the values of the two sliders
Press_create_prediction_table ==
    /\ pc = "line 1541"
    /\ Line("create_prediction_table",
            create_prediction_table(call.lingkar_dada, call.panjang_badan, call.jenis_ternak,
                                    call.bangsa, call.jenis_kelamin, call.steps,
                                    call.variation_percent),
            "done")

\* result is what hitung_berat_badan has just returned or raised
EstimateAtHand ==
    \/ pc = "done" /\ call.fn = "hitung_berat_badan"
    \/ pc = "line 992" /\ call.fn = "button"

\* the arguments of that call
EstimatorArguments ==
    <<call.lingkar_dada, call.panjang_badan, call.jenis_ternak, call.bangsa, call.jenis_kelamin>>

\* the outcome at hand is kept for a later comparison
Remember ==
    /\ EstimateAtHand
    /\ earlier # <<EstimatorArguments, result>>
    /\ earlier' = <<EstimatorArguments, result>>
    /\ UNCHANGED <<ANIMAL_FORMULAS, ANIMAL_DATA, SLAUGHTER_DATA, V3_SLAUGHTER_DATA, call, pc, result, objects, widgets, run>>

\* the caller drops the result
EndCall ==
    /\ pc = "done"
    /\ call' = NoCall
    /\ pc' = "idle"
    /\ result' = None
    /\ objects' = {}
    /\ UNCHANGED <<ANIMAL_FORMULAS, ANIMAL_DATA, SLAUGHTER_DATA, V3_SLAUGHTER_DATA, earlier, widgets, run>>

\* another call, or another press of the button
NextCall ==
    /\ pc = "idle"
    /\ call' \in SessionCalls
    /\ pc' = "ready"
    /\ UNCHANGED <<ANIMAL_FORMULAS, ANIMAL_DATA, SLAUGHTER_DATA, V3_SLAUGHTER_DATA, result, objects, earlier, widgets, run>>

SessionNext ==
    \/ Call_hitung_berat_badan
    \/ Call_hitung_komponen_karkas
    \/ Call_create_prediction_table
    \/ Session_compare_formulas
    \/ Session_create_breed_comparison_chart
    \/ Press_hitung_berat_badan
    \/ Press_hitung_komponen_karkas
    \/ Press_weight_ranges
    \/ Press_compare_formulas
    \/ Press_create_breed_comparison_chart
    \/ Press_create_prediction_table
    \/ Remember
    \/ EndCall
    \/ NextCall

SessionSpec == SessionInit /\ [][SessionNext]_vars

(***************************************************************************)
(* The page.  Streamlit runs the script from its first line to its last    *)
(* when the page is opened and again after every change of a widget and    *)
(* every press of the button; a widget call returns what the widget holds. *)
(* Calls are kept with the line that makes them; of the calls of           *)
(* hitung_berat_badan only the first (line 989, version/V3 line 1033) is   *)
(* kept, the others follow it inside the same block.                       *)
(***************************************************************************)
MainFile == "sapi_weight_predictor.py"

V3File == "version/V3/app.py"

\* a selectbox that goes on holding an option it no longer offers
selectbox_keeping_state(options, state) == IF state = "" THEN options[1] ELSE state

\* st.selectbox(label, options): the option held, or the first one if none is held
selectbox(options, state) ==
    IF \E i \in 1..Len(options) : options[i] = state THEN state ELSE options[1]

\* list(ANIMAL_DATA.keys()), in the order of the dict display
species_options == <<"Sapi", "Kambing", "Domba">>

\* min_value <= x <= max_value
admits(input, x) == FLe(input[1], x) /\ FLe(x, input[3])

\* st.sidebar.number_input(label, min_value, max_value, value): the number held
\* (state = <<x>>), or value if none is held
number_input_value(input, state) ==
    IF state # << >> /\ admits(input, state[1]) THEN state[1] ELSE input[2]

\* a slider that can be moved to every integer from min_value to max_value
slider_values_every_integer(min_value, max_value, step) == min_value..max_value

\* the values a slider of integers can be moved to
slider_values(min_value, max_value, step) ==
    {min_value + k * step : k \in 0..((max_value - min_value) \div step)}

\* st.slider(label, min_value, max_value, value, step): the value held, or value
slider(min_value, max_value, value, step, state) ==
    IF state \in slider_values(min_value, max_value, step) THEN state ELSE value

\* one call of a run: the line, the function, its arguments and what it returned
\* (None where the page only displays it)
Called(line, fn, args, r) == [line |-> line, fn |-> fn, args |-> args, result |-> r]

\* lines 995-1552 after both results are there: the weight is shown, then the
\* comparison, the chart, the sliders and the table of predictions
main_block_display(ld, pb, jt, bt, jk, weight, vp, st) ==
    <<Called(995, "st.success", <<weight>>, None),
      Called(1340, "compare_formulas", <<jt, ld, pb, jk, bt>>, None),
      Called(1454, "create_breed_comparison_chart", <<jt, ld, pb, jk>>, None),
      Called(1532, "st.slider", <<5, 30, 15, 1>>, vp),
      Called(1535, "st.slider", <<3, 9, 5, 2>>, st),
      Called(1541, "create_prediction_table", <<ld, pb, jt, bt, jk, st, vp>>, None),
      Called(1552, "st.dataframe", <<ld, pb, jt, bt, jk, st, vp>>, None)>>

\* version/V3, lines 1041-1141
V3_block_display(ld, pb, jt, bt, jk, weight) ==
    <<Called(1041, "st.success", <<weight>>, None),
      Called(1091, "compare_formulas", <<jt, ld, pb, jk, bt>>, None),
      Called(1110, "create_breed_comparison_chart", <<jt, ld, pb, jk>>, None),
      Called(1141, "create_carcass_sankey", <<weight>>, None)>>

\* the block of the button handing the chest girth, not the weight, to the
\* decomposition
block_after_estimate_passing_girth(file, ld, pb, jt, bt, jk, estimate, karkas_data, vp, st) ==
    <<Called(IF file = MainFile THEN 989 ELSE 1033, "hitung_berat_badan",
             <<ld, pb, jt, bt, jk>>, estimate)>>
    \o (IF estimate.kind = "raise" THEN << >>
        ELSE <<Called(IF file = MainFile THEN 992 ELSE 1038, "hitung_komponen_karkas",
                      <<ld, jt, bt, jk>>, karkas_data)>>
             \o (IF karkas_data.kind = "raise" THEN << >>
                 ELSE IF file = MainFile
                 THEN main_block_display(ld, pb, jt, bt, jk, estimate.value[1], vp, st)
                 ELSE V3_block_display(ld, pb, jt, bt, jk, estimate.value[1])))

\* the block of the button once hitung_berat_badan has returned or raised
block_after_estimate(file, ld, pb, jt, bt, jk, estimate, karkas_data, vp, st) ==
    <<Called(IF file = MainFile THEN 989 ELSE 1033, "hitung_berat_badan",
             <<ld, pb, jt, bt, jk>>, estimate)>>
    \o (IF estimate.kind = "raise" THEN << >>
        ELSE <<Called(IF file = MainFile THEN 992 ELSE 1038, "hitung_komponen_karkas",
                      <<estimate.value[1], jt, bt, jk>>, karkas_data)>>
             \o (IF karkas_data.kind = "raise" THEN << >>
                 ELSE IF file = MainFile
                 THEN main_block_display(ld, pb, jt, bt, jk, estimate.value[1], vp, st)
                 ELSE V3_block_display(ld, pb, jt, bt, jk, estimate.value[1])))

\* lines 989 and 992: the two results, each computed once
button_block(file, ld, pb, jt, bt, jk, vp, st) ==
    CHOOSE calls \in
        {block_after_estimate(
             file, ld, pb, jt, bt, jk, estimate,
             IF estimate.kind = "raise" THEN None
             ELSE IF file = MainFile
             THEN hitung_komponen_karkas(estimate.value[1], jt, bt, jk)
             ELSE V3_hitung_komponen_karkas(estimate.value[1], jt, bt, jk),
             vp, st) :
           estimate \in {hitung_berat_badan(ld, pb, jt, bt, jk)}} : TRUE

\* the ranges of the breeds of the table
table_ranges ==
    UNION {{ANIMAL_DATA_src[t].breeds[i].val.chest_range : i \in 1..Len(ANIMAL_DATA_src[t].breeds)}
           \cup {ANIMAL_DATA_src[t].breeds[i].val.length_range : i \in 1..Len(ANIMAL_DATA_src[t].breeds)} :
               t \in DOMAIN ANIMAL_DATA_src}

\* the arguments of a number input for each of these ranges, computed once
number_inputs == << >> @@ [range \in table_ranges |-> number_input(range)]

\* lines 967-984: the arguments that a number input is drawn with
drawn_number_input(range) ==
    IF range \in DOMAIN number_inputs THEN number_inputs[range] ELSE number_input(range)

\* whether a run that made these calls has drawn the sliders of the table
sliders_drawn(calls) == \E i \in 1..Len(calls) : calls[i].line = 1532

\* what the widgets hold after a run that made these calls: a widget the run has
\* not drawn holds nothing
widgets_after(page, jt, bt, jk, chest_input, length_input, ld, pb, vp, st, calls) ==
    [file |-> page.file, jenis_ternak |-> jt, bangsa_ternak |-> bt, jenis_kelamin |-> jk,
     inputs_of |-> bt, chest_input |-> chest_input, length_input |-> length_input,
     lingkar_dada |-> <<ld>>, panjang_badan |-> <<pb>>,
     variation_percent |-> IF sliders_drawn(calls) THEN vp ELSE 0,
     steps |-> IF sliders_drawn(calls) THEN st ELSE 0]

\* lines 962-987 for the selections jt, bt, jk: the number inputs, then the button.
\* The help of a number input names the breed, so the inputs of another breed
\* are new widgets that hold nothing.
script_measurements(page, button, jt, bt, jk, breed_data) ==
    CHOOSE r \in
        {[widgets |-> widgets_after(page, jt, bt, jk, drawn[1], drawn[2], drawn[3], drawn[4],
                                    drawn[5], drawn[6], drawn[7]),
          calls |-> drawn[7]] :
            drawn \in
                {<<chest_input, length_input, ld, pb, vp, st,
                   IF button THEN button_block(page.file, ld, pb, jt, bt, jk, vp, st)
                   ELSE << >>>> :
                     chest_input \in {drawn_number_input(breed_data.chest_range)},
                     length_input \in {drawn_number_input(breed_data.length_range)},
                     ld \in {CHOOSE v \in
                                 {number_input_value(
                                      input,
                                      IF page.inputs_of = bt THEN page.lingkar_dada ELSE << >>) :
                                    input \in {drawn_number_input(breed_data.chest_range)}} : TRUE},
                     pb \in {CHOOSE v \in
                                 {number_input_value(
                                      input,
                                      IF page.inputs_of = bt THEN page.panjang_badan ELSE << >>) :
                                    input \in {drawn_number_input(breed_data.length_range)}} : TRUE},
                     vp \in {slider(5, 30, 15, 1, page.variation_percent)},
                     st \in {slider(3, 9, 5, 2, page.steps)}}} : TRUE

\* lines 941-962 (version/V3 967-1007): the three selectboxes and the lookup of
\* the breed
script_selections(page, button, jt, bt, jk) ==
    IF ~HasKey(ANIMAL_DATA[jt].breeds, bt)
    THEN [widgets |-> [file |-> page.file, jenis_ternak |-> jt, bangsa_ternak |-> bt,
                       jenis_kelamin |-> jk, inputs_of |-> "", chest_input |-> << >>,
                       length_input |-> << >>, lingkar_dada |-> << >>,
                       panjang_badan |-> << >>, variation_percent |-> 0, steps |-> 0],
          calls |-> <<Called(IF page.file = MainFile THEN 962 ELSE 1007, "dict.__getitem__",
                             <<bt>>, Raise("KeyError", bt))>>]
    ELSE script_measurements(page, button, jt, bt, jk, Get(ANIMAL_DATA[jt].breeds, bt))

\* one run of the script: what the widgets hold after it and what it called
script_run(page, button) ==
    CHOOSE r \in
        {script_selections(page, button, chosen[1], chosen[2], chosen[3]) :
            chosen \in
                {<<jt, selectbox(Keys(ANIMAL_DATA[jt].breeds), page.bangsa_ternak), jk>> :
                    jt \in {selectbox(species_options, page.jenis_ternak)},
                    jk \in {selectbox(<<"Jantan", "Betina">>, page.jenis_kelamin)}}} : TRUE

\* the page before its first run: no widget holds anything
NewPage(file) ==
    [file |-> file, jenis_ternak |-> "", bangsa_ternak |-> "", jenis_kelamin |-> "",
     inputs_of |-> "", chest_input |-> << >>, length_input |-> << >>,
     lingkar_dada |-> << >>, panjang_badan |-> << >>, variation_percent |-> 0, steps |-> 0]

\* the page of either file has been opened and the script has run once
PageInit ==
    /\ ANIMAL_FORMULAS = import_ANIMAL_FORMULAS(ANIMAL_FORMULAS_src)
    /\ ANIMAL_DATA = import_ANIMAL_DATA(ANIMAL_DATA_src)
    /\ SLAUGHTER_DATA = import_SLAUGHTER_DATA(SLAUGHTER_DATA_src)
    /\ V3_SLAUGHTER_DATA = import_SLAUGHTER_DATA(V3_SLAUGHTER_DATA_src)
    /\ pc = "idle"
    /\ result = None
    /\ objects = {}
    /\ earlier = << >>
    /\ call = NoCall
    /\ \E file \in {MainFile, V3File} :
           /\ widgets = script_run(NewPage(file), FALSE).widgets
           /\ run = [button |-> FALSE, calls |-> << >>]

\* the page is open in the browser
PageOpen == widgets.file \in {MainFile, V3File}

\* the script runs again.  A widget that the run does not draw loses what it
\* held, the sliders of the table among them.
Rerun(page, button) ==
    \E r \in {script_run(page, button)} :
        /\ widgets' = r.widgets
        /\ run' = [button |-> button, calls |-> r.calls]
        /\ UNCHANGED <<ANIMAL_FORMULAS, ANIMAL_DATA, SLAUGHTER_DATA, V3_SLAUGHTER_DATA, call, pc, result, objects, earlier>>

\* line 941: another species is chosen from the options of the selectbox
Choose_jenis_ternak ==
    /\ PageOpen
    /\ \E i \in 1..Len(species_options) :
           Rerun([widgets EXCEPT !.jenis_ternak = species_options[i]], FALSE)

\* the options of the second selectbox as the last run has drawn it
breed_options == Keys(ANIMAL_DATA[widgets.jenis_ternak].breeds)

\* line 948: a breed is chosen from the options the selectbox was drawn with
Choose_bangsa_ternak ==
    /\ PageOpen
    /\ \E i \in 1..Len(breed_options) :
           Rerun([widgets EXCEPT !.bangsa_ternak = breed_options[i]], FALSE)

\* line 955
Choose_jenis_kelamin ==
    /\ PageOpen
    /\ \E jenis_kelamin \in {"Jantan", "Betina"} :
           Rerun([widgets EXCEPT !.jenis_kelamin = jenis_kelamin], FALSE)

\* the bounds of the number input and half a centimetre beyond them
Entries(input) == {input[1], input[3], FSub(input[1], Dec(5, 1)), FAdd(input[3], Dec(5, 1))}

\* what a number input holds after x was typed into it: x if the input admits
\* it; otherwise the browser keeps what it held or takes the nearest bound
held_after(input, state, x) ==
    IF admits(input, x) THEN {<<x>>}
    ELSE {state, IF FLt(x, input[1]) THEN <<input[1]>> ELSE <<input[3]>>}

\* the breeds whose measurements the checked sessions type in
EntryBreeds == {t[2] : t \in FormBreeds}

\* line 967: a chest girth is typed in
Enter_lingkar_dada ==
    /\ widgets.bangsa_ternak \in EntryBreeds
    /\ \E x \in Entries(widgets.chest_input) :
        \E held \in held_after(widgets.chest_input, widgets.lingkar_dada, x) :
            Rerun([widgets EXCEPT !.lingkar_dada = held], FALSE)

\* line 977: a body length is typed in
Enter_panjang_badan ==
    /\ widgets.bangsa_ternak \in EntryBreeds
    /\ \E x \in Entries(widgets.length_input) :
        \E held \in held_after(widgets.length_input, widgets.panjang_badan, x) :
            Rerun([widgets EXCEPT !.panjang_badan = held], FALSE)

\* line 987: the button is pressed; st.sidebar.button returns True in this run only
Press_button ==
    /\ PageOpen
    /\ Rerun(widgets, TRUE)

\* the positions of the first slider that the checked sessions move it to
MovedVariations == {v \in slider_values(5, 30, 1) : v \in {5, 20, 30}}

\* line 1532: the slider of the variation, drawn by the last run, is moved
Move_variation_percent ==
    /\ sliders_drawn(run.calls)
    /\ \E v \in MovedVariations :
           /\ v # widgets.variation_percent
           /\ Rerun([widgets EXCEPT !.variation_percent = v], FALSE)

\* line 1535: the slider of the steps, drawn by the last run, is moved
Move_steps ==
    /\ sliders_drawn(run.calls)
    /\ \E s \in slider_values(3, 9, 2) :
           /\ s # widgets.steps
           /\ Rerun([widgets EXCEPT !.steps = s], FALSE)

PageNext ==
    \/ Choose_jenis_ternak
    \/ Choose_bangsa_ternak
    \/ Choose_jenis_kelamin
    \/ Enter_lingkar_dada
    \/ Enter_panjang_badan
    \/ Press_button
    \/ Move_variation_percent
    \/ Move_steps

PageSpec == PageInit /\ [][PageNext]_vars

(***************************************************************************)
(* Properties.  They are stated of the outcome of a finished call and are  *)
(* computed from the tables and the arguments, with the float operations   *)
(* written out.                                                            *)
(***************************************************************************)
Done(fn) == pc = "done" /\ call.fn = fn

Registered(table, jenis_ternak, bangsa) ==
    jenis_ternak \in DOMAIN table /\ HasKey(table[jenis_ternak].breeds, bangsa)

\* the profile of a registered breed, and the formula assigned to it
BreedOf(jenis_ternak, bangsa) == Get(ANIMAL_DATA[jenis_ternak].breeds, bangsa)

AssignedFormula(jenis_ternak, bangsa) ==
    Get(ANIMAL_FORMULAS[jenis_ternak].formulas, BreedOf(jenis_ternak, bangsa).formula_name)

\* raw weight x breed factor x sex factor, two float multiplications from the left
Corrected(raw, jenis_ternak, bangsa, jenis_kelamin) ==
    FMul(FMul(raw, BreedOf(jenis_ternak, bangsa).factor),
         BreedOf(jenis_ternak, bangsa).gender_factor[jenis_kelamin])

FAbs(x) == IF IsNaN(x) THEN x ELSE [x EXCEPT !.sign = 0]

\* a measurement that is not a finite positive number
InvalidMeasurement(x) == ~IsFinite(x) \/ FLe(x, FromInt(0))

ValidEstimatorCall ==
    /\ Done("hitung_berat_badan")
    /\ Registered(ANIMAL_DATA, call.jenis_ternak, call.bangsa)
    /\ call.jenis_kelamin \in Sexes

ValidComparatorCall ==
    /\ Done("compare_formulas")
    /\ Registered(ANIMAL_DATA, call.animal_type, call.breed)
    /\ call.gender \in Sexes

\* C1: for a registered breed and a sex of the table, hitung_berat_badan returns the
\* raw weight of the breed's assigned formula at the measurements, times the breed
\* factor, times the sex factor, unrounded, with the name and the text of that formula
C1_EstimatorUsesAssignedFormula ==
    ValidEstimatorCall =>
        /\ result.kind = "return"
        /\ result.value =
               <<Corrected(calculation_func(
                               AssignedFormula(call.jenis_ternak, call.bangsa).calculation,
                               call.lingkar_dada, call.panjang_badan),
                           call.jenis_ternak, call.bangsa, call.jenis_kelamin),
                 BreedOf(call.jenis_ternak, call.bangsa).formula_name,
                 AssignedFormula(call.jenis_ternak, call.bangsa).formula>>

\* an estimate that is a positive weight and that both factors have changed
C1_Witness ==
    /\ ValidEstimatorCall
    /\ result.kind = "return"
    /\ FLt(FromInt(0), result.value[1])
    /\ BreedOf(call.jenis_ternak, call.bangsa).factor # FromInt(1)
    /\ result.value[1] #
           calculation_func(AssignedFormula(call.jenis_ternak, call.bangsa).calculation,
                            call.lingkar_dada, call.panjang_badan)
    /\ result.value[2] = BreedOf(call.jenis_ternak, call.bangsa).formula_name

\* C2: the entry of compare_formulas under the name of the breed's assigned formula
\* has the corrected_weight that hitung_berat_badan returns for the same inputs
C2_ComparatorAgreesWithEstimator ==
    ValidComparatorCall =>
        /\ result.kind = "return"
        /\ HasKey(result.value, BreedOf(call.animal_type, call.breed).formula_name)
        /\ Get(result.value,
               BreedOf(call.animal_type, call.breed).formula_name).corrected_weight
               = hitung_berat_badan(call.chest_size, call.body_length, call.animal_type,
                                    call.breed, call.gender).value[1]

\* a comparison whose entry for the assigned formula is corrected to another value
C2_Witness ==
    /\ ValidComparatorCall
    /\ result.kind = "return"
    /\ HasKey(result.value, BreedOf(call.animal_type, call.breed).formula_name)
    /\ IsFinite(Get(result.value,
                    BreedOf(call.animal_type, call.breed).formula_name).corrected_weight)
    /\ Get(result.value, BreedOf(call.animal_type, call.breed).formula_name).corrected_weight
           # Get(result.value, BreedOf(call.animal_type, call.breed).formula_name).raw_weight

\* C3: compare_formulas returns one entry for every formula registered for the
\* species, in the order of ANIMAL_FORMULAS, and every entry holds the raw weight of
\* its formula and that weight times the selected breed's factor and sex factor
C3_ComparatorCoversEveryFormula ==
    ValidComparatorCall =>
        /\ result.kind = "return"
        /\ Len(result.value) = Len(ANIMAL_FORMULAS[call.animal_type].formulas)
        /\ \A i \in 1..Len(ANIMAL_FORMULAS[call.animal_type].formulas) :
               /\ result.value[i].key = ANIMAL_FORMULAS[call.animal_type].formulas[i].key
               /\ result.value[i].val.raw_weight =
                      calculation_func(
                          ANIMAL_FORMULAS[call.animal_type].formulas[i].val.calculation,
                          call.chest_size, call.body_length)
               /\ result.value[i].val.corrected_weight =
                      Corrected(result.value[i].val.raw_weight, call.animal_type,
                                call.breed, call.gender)
        /\ \A i, j \in 1..Len(result.value) :
               result.value[i].key = result.value[j].key => i = j

\* a comparison of three formulas or more whose first entry is not the formula
\* assigned to the breed
C3_Witness ==
    /\ ValidComparatorCall
    /\ result.kind = "return"
    /\ Len(result.value) >= 3
    /\ result.value[1].key # BreedOf(call.animal_type, call.breed).formula_name
    /\ result.value[1].val.raw_weight # result.value[2].val.raw_weight
    /\ IsFinite(result.value[1].val.corrected_weight)

ChartDone ==
    Done("create_breed_comparison_chart") \/ Done("V3.create_breed_comparison_chart")

ValidChartCall ==
    /\ ChartDone
    /\ call.animal_type \in DOMAIN ANIMAL_DATA
    /\ call.gender \in Sexes

\* C4: the breed comparison of either file has as many entries as the species has
\* breeds, and every breed has an entry whose weight and formula name are those
\* hitung_berat_badan returns for the breed with the same sex and measurements
C4_ChartAgreesWithEstimator ==
    ValidChartCall =>
        /\ result.kind = "return"
        /\ Len(result.value) = Len(ANIMAL_DATA[call.animal_type].breeds)
        /\ \A i \in 1..Len(ANIMAL_DATA[call.animal_type].breeds) :
               \E p \in 1..Len(result.value) :
                   /\ result.value[p].breed_name =
                          ANIMAL_DATA[call.animal_type].breeds[i].key
                   /\ <<result.value[p].weight, result.value[p].formula>> =
                          SubSeq(hitung_berat_badan(
                                     call.chest_size, call.body_length, call.animal_type,
                                     ANIMAL_DATA[call.animal_type].breeds[i].key,
                                     call.gender).value, 1, 2)

\* a sorted comparison whose first bar is not the first breed of the table and
\* whose breeds do not all use one formula
C4_Witness ==
    /\ Done("create_breed_comparison_chart")
    /\ call.animal_type \in DOMAIN ANIMAL_DATA
    /\ call.gender \in Sexes
    /\ result.kind = "return"
    /\ result.value[1].breed_name # ANIMAL_DATA[call.animal_type].breeds[1].key
    /\ result.value[1].formula # result.value[Len(result.value)].formula
    /\ FLt(result.value[1].weight, result.value[Len(result.value)].weight)

\* the slaughter table a decomposition reads
SlaughterTable == IF call.fn = "V3.hitung_komponen_karkas" THEN V3_SLAUGHTER_DATA
                  ELSE SLAUGHTER_DATA

SlaughterOf(jenis_ternak, bangsa) == Get(SlaughterTable[jenis_ternak].breeds, bangsa)

ValidCarcassCall ==
    /\ Done("hitung_komponen_karkas") \/ Done("V3.hitung_komponen_karkas")
    /\ Registered(SlaughterTable, call.jenis_ternak, call.bangsa)
    /\ call.jenis_kelamin \in Sexes

\* karkas_percent[sex] + sum(non_karkas_percent.values())
Accounted ==
    FAdd(SlaughterOf(call.jenis_ternak, call.bangsa).karkas_percent[call.jenis_kelamin],
         sum(Values(SlaughterOf(call.jenis_ternak, call.bangsa).non_karkas_percent)))

\* karkas_weight and meat_weight of the breakdown are the two products over 100
CarcassWeightsAsSpecified ==
    /\ result.kind = "return"
    /\ result.value.karkas_weight =
           FDiv(FMul(call.berat_badan,
                     SlaughterOf(call.jenis_ternak, call.bangsa)
                         .karkas_percent[call.jenis_kelamin]),
                FromInt(100))
    /\ result.value.meat_weight =
           FDiv(FMul(result.value.karkas_weight,
                     SlaughterOf(call.jenis_ternak, call.bangsa).meat_percent_of_carcass),
                FromInt(100))

\* meat_weight + bone_and_fat_weight == karkas_weight
MeatAndBoneAreTheCarcass ==
    FEq(FAdd(result.value.meat_weight, result.value.bone_and_fat_weight),
        result.value.karkas_weight)

\* C5 as it is stated: for every live weight > 0 the breakdown of either file has
\* karkas_weight = live weight x karkas_percent[sex] / 100, meat_weight =
\* karkas_weight x meat_percent_of_carcass / 100 and meat_weight +
\* bone_and_fat_weight == karkas_weight
C5_CarcassMassConservedForEveryWeight ==
    (ValidCarcassCall /\ FLt(FromInt(0), call.berat_badan)) =>
        CarcassWeightsAsSpecified /\ MeatAndBoneAreTheCarcass

\* C5: for every live weight > 0 the breakdown of either file has karkas_weight =
\* live weight x karkas_percent[sex] / 100 and meat_weight = karkas_weight x
\* meat_percent_of_carcass / 100, and meat_weight + bone_and_fat_weight ==
\* karkas_weight whenever the meat weight is finite
C5_CarcassMassConserved ==
    (ValidCarcassCall /\ FLt(FromInt(0), call.berat_badan)) =>
        /\ CarcassWeightsAsSpecified
        /\ IsFinite(result.value.meat_weight) => MeatAndBoneAreTheCarcass

\* a breakdown of a positive weight whose meat weight is finite and is not a round
\* number: the division by 100 was rounded
C5_Witness ==
    /\ ValidCarcassCall
    /\ FLt(FromInt(0), call.berat_badan)
    /\ result.kind = "return"
    /\ IsFinite(result.value.meat_weight)
    /\ FLt(FromInt(0), result.value.bone_and_fat_weight)
    /\ FMul(result.value.meat_weight, FromInt(100)) #
           FMul(result.value.karkas_weight,
                SlaughterOf(call.jenis_ternak, call.bangsa).meat_percent_of_carcass)

\* C6: in either file the decomposition adds the entry "Lain-lain" with the weight
\* live weight x (100 - accounted) / 100 exactly when accounted is below 100, adds
\* none otherwise, and gives every named component live weight x its percent / 100
C6_ResidualInBothFiles ==
    (ValidCarcassCall /\ result.kind = "return") =>
        /\ FLt(Accounted, FromInt(100)) =>
               /\ HasKey(result.value.non_karkas_weights, "Lain-lain")
               /\ Get(result.value.non_karkas_weights, "Lain-lain") =
                      FDiv(FMul(call.berat_badan, FSub(FromInt(100), Accounted)),
                           FromInt(100))
        /\ ~FLt(Accounted, FromInt(100)) =>
               ~HasKey(result.value.non_karkas_weights, "Lain-lain")
        /\ \A i \in 1..Len(SlaughterOf(call.jenis_ternak, call.bangsa).non_karkas_percent) :
               LET item == SlaughterOf(call.jenis_ternak, call.bangsa).non_karkas_percent[i]
               IN  /\ HasKey(result.value.non_karkas_weights, item.key)
                   /\ Get(result.value.non_karkas_weights, item.key) =
                          FDiv(FMul(call.berat_badan, item.val), FromInt(100))

\* live weight x (100 - karkas_percent[sex]) / 100
NonCarcassShare ==
    FDiv(FMul(call.berat_badan,
              FSub(FromInt(100),
                   SlaughterOf(call.jenis_ternak, call.bangsa)
                       .karkas_percent[call.jenis_kelamin])),
         FromInt(100))

\* sum(non_karkas_weights.values()) of the breakdown returned
NonCarcassSum == sum(Values(result.value.non_karkas_weights))

ResidualCase ==
    /\ Done("hitung_komponen_karkas")
    /\ Registered(SLAUGHTER_DATA, call.jenis_ternak, call.bangsa)
    /\ call.jenis_kelamin \in Sexes
    /\ result.kind = "return"
    /\ FLt(Accounted, FromInt(100))

\* C7 as it is stated: whenever accounted < 100 the values of non_karkas_weights
\* add up to live weight x (100 - karkas_percent[sex]) / 100, and to the live
\* weight together with the carcass weight
C7_NonCarcassSumExact ==
    ResidualCase =>
        /\ FEq(NonCarcassSum, NonCarcassShare)
        /\ FEq(FAdd(result.value.karkas_weight, NonCarcassSum), call.berat_badan)

\* C7: whenever accounted < 100 and the carcass weight, the sum of the values of
\* non_karkas_weights and live weight x (100 - karkas_percent[sex]) / 100 are
\* finite, the sum differs from that share, and the carcass weight plus the sum
\* from the live weight, by at most |live weight| / 10^9
C7_NonCarcassSumWithinRounding ==
    (ResidualCase /\ IsFinite(result.value.karkas_weight) /\ IsFinite(NonCarcassSum)
        /\ IsFinite(NonCarcassShare)) =>
        /\ FLe(FAbs(FSub(NonCarcassSum, NonCarcassShare)),
               FMul(FAbs(call.berat_badan), Dec(1, 9)))
        /\ FLe(FAbs(FSub(FAdd(result.value.karkas_weight, NonCarcassSum), call.berat_badan)),
               FMul(FAbs(call.berat_badan), Dec(1, 9)))

\* a breakdown with the residual entry whose non-carcass weights are finite and do
\* not add up to the share exactly
C7_Witness ==
    /\ ResidualCase
    /\ IsFinite(result.value.karkas_weight)
    /\ IsFinite(NonCarcassSum)
    /\ IsFinite(NonCarcassShare)
    /\ HasKey(result.value.non_karkas_weights, "Lain-lain")
    /\ ~FEq(NonCarcassSum, NonCarcassShare)

\* C8: hitung_berat_badan raises for a chest girth or a body length that is zero,
\* negative or not finite, and returns no weight for it
C8_InvalidMeasurementRejected ==
    (ValidEstimatorCall
        /\ (InvalidMeasurement(call.lingkar_dada) \/ InvalidMeasurement(call.panjang_badan)))
        => result.kind = "raise"

\* C9: hitung_berat_badan raises and returns nothing when the breed is not
\* registered for the species or the sex is neither Jantan nor Betina; the breed is
\* looked up before the sex, and no formula is evaluated
C9_UnknownBreedOrSexRaises ==
    (Done("hitung_berat_badan")
        /\ (~Registered(ANIMAL_DATA, call.jenis_ternak, call.bangsa)
               \/ call.jenis_kelamin \notin Sexes))
        => /\ result.kind = "raise"
           /\ result.exc = "KeyError"
           /\ result.value = << >>
           /\ result.evaluated = << >>
           /\ result.arg = IF call.jenis_ternak \notin DOMAIN ANIMAL_DATA
                           THEN call.jenis_ternak
                           ELSE IF HasKey(ANIMAL_DATA[call.jenis_ternak].breeds, call.bangsa)
                           THEN call.jenis_kelamin
                           ELSE call.bangsa

\* a call with an unregistered breed and an unknown sex, which fails on the breed
C9_Witness ==
    /\ Done("hitung_berat_badan")
    /\ call.jenis_ternak \in DOMAIN ANIMAL_DATA
    /\ ~HasKey(ANIMAL_DATA[call.jenis_ternak].breeds, call.bangsa)
    /\ call.jenis_kelamin \notin Sexes
    /\ call.jenis_kelamin # call.bangsa
    /\ result.kind = "raise"
    /\ result.arg = call.bangsa

\* C10: when a formula yields a raw weight <= 0, hitung_berat_badan (for the
\* assigned formula) and compare_formulas (for every formula) return raw weight x
\* breed factor x sex factor, which is <= 0 too: nothing is clamped or replaced
C10_NonPositiveNotClamped ==
    /\ ValidEstimatorCall =>
           LET raw == calculation_func(
                          AssignedFormula(call.jenis_ternak, call.bangsa).calculation,
                          call.lingkar_dada, call.panjang_badan)
           IN  FLe(raw, FromInt(0)) =>
                   /\ result.kind = "return"
                   /\ result.value[1] =
                          Corrected(raw, call.jenis_ternak, call.bangsa, call.jenis_kelamin)
                   /\ FLe(result.value[1], FromInt(0))
    /\ ValidComparatorCall =>
           /\ result.kind = "return"
           /\ \A i \in 1..Len(result.value) :
                  LET raw == calculation_func(
                                 ANIMAL_FORMULAS[call.animal_type].formulas[i].val.calculation,
                                 call.chest_size, call.body_length)
                  IN  FLe(raw, FromInt(0)) =>
                          /\ result.value[i].val.raw_weight = raw
                          /\ result.value[i].val.corrected_weight =
                                 Corrected(raw, call.animal_type, call.breed, call.gender)
                          /\ FLe(result.value[i].val.corrected_weight, FromInt(0))

\* an estimate by the NSA Australia formula that is below zero
C10_Witness ==
    /\ ValidEstimatorCall
    /\ BreedOf(call.jenis_ternak, call.bangsa).formula_name = "NSA Australia"
    /\ ~InvalidMeasurement(call.lingkar_dada)
    /\ ~InvalidMeasurement(call.panjang_badan)
    /\ result.kind = "return"
    /\ FLt(result.value[1], FromInt(0))

\* the comparison of the sheep formulas at chest girth 40 and body length 40
SheepAt40 ==
    /\ ValidComparatorCall
    /\ call.animal_type = "Domba"
    /\ call.chest_size = FromInt(40)
    /\ call.body_length = FromInt(40)
    /\ result.kind = "return"
    /\ HasKey(result.value, "NSA Australia")

\* C11 as it is stated: at chest girth 40 and body length 40 the raw weight of
\* NSA Australia is -3.81968 (here: to within 10^-9)
C11_NSARawWeightAsStated ==
    SheepAt40 =>
        FLe(FAbs(FSub(Get(result.value, "NSA Australia").raw_weight, FNeg(Dec(381968, 5)))),
            Dec(1, 9))

\* C11: at chest girth 40 and body length 40 the raw weight of NSA Australia is
\* 0.0000627 * 40 * 40 - 3.91, which is the double -3.80968, a negative value, and
\* it is returned as the raw weight
C11_NSARawWeight ==
    SheepAt40 =>
        /\ Get(result.value, "NSA Australia").raw_weight =
               FSub(FMul(FMul(Dec(627, 7), FromInt(40)), FromInt(40)), Dec(391, 2))
        /\ Get(result.value, "NSA Australia").raw_weight = FNeg(Dec(380968, 5))
        /\ FLt(Get(result.value, "NSA Australia").raw_weight, FromInt(0))

\* the comparison at 40 and 40 for the breed that NSA Australia is assigned to,
\* whose corrected weight is negative too
C11_Witness ==
    /\ SheepAt40
    /\ BreedOf(call.animal_type, call.breed).formula_name = "NSA Australia"
    /\ FLt(Get(result.value, "NSA Australia").corrected_weight, FromInt(0))

\* the estimate for a Sapi Bali bull of chest girth 180 and body length 150
BaliBullScenario ==
    /\ Done("hitung_berat_badan")
    /\ call.jenis_ternak = "Sapi"
    /\ call.bangsa = "Sapi Bali"
    /\ call.jenis_kelamin = "Jantan"
    /\ call.lingkar_dada = FromInt(180)
    /\ call.panjang_badan = FromInt(150)

\* formula, raw weight and factors of the scenario: Schoorl, 408.04, 1.0 and 1.1
BaliBullFactors ==
    /\ result.kind = "return"
    /\ result.value[2] = "Schoorl (Indonesia)"
    /\ result.value[3] = Get(ANIMAL_FORMULAS["Sapi"].formulas, "Schoorl (Indonesia)").formula
    /\ calculation_func(AssignedFormula("Sapi", "Sapi Bali").calculation,
                        call.lingkar_dada, call.panjang_badan) = Dec(40804, 2)
    /\ BreedOf("Sapi", "Sapi Bali").factor = FromInt(1)
    /\ BreedOf("Sapi", "Sapi Bali").gender_factor["Jantan"] = Dec(11, 1)

\* C12 as it is stated: the scenario uses Schoorl, raw weight 408.04, factors 1.0
\* and 1.1, and returns the weight 448.844
C12_BaliBullWeightExact ==
    BaliBullScenario => BaliBullFactors /\ result.value[1] = Dec(448844, 3)

\* C12: the scenario uses Schoorl, raw weight 408.04, factors 1.0 and 1.1, and
\* returns the double 408.04 * 1.0 * 1.1, which is above 448.844 by less than 10^-12
C12_BaliBullWeight ==
    BaliBullScenario =>
        /\ BaliBullFactors
        /\ result.value[1] = FMul(FMul(Dec(40804, 2), FromInt(1)), Dec(11, 1))
        /\ FLt(Dec(448844, 3), result.value[1])
        /\ FLt(FSub(result.value[1], Dec(448844, 3)), FDiv(Dec(1, 6), FromInt(1000000)))

\* the scenario has been run and has returned a weight between 448 and 449
C12_Witness ==
    /\ BaliBullScenario
    /\ result.kind = "return"
    /\ FLt(FromInt(448), result.value[1])
    /\ FLt(result.value[1], FromInt(449))

\* the weight hitung_berat_badan returns for the arguments of the call with the sex s
WeightForSex(s) ==
    hitung_berat_badan(call.lingkar_dada, call.panjang_badan, call.jenis_ternak,
                       call.bangsa, s).value[1]

\* gender_factor["Jantan"] / gender_factor["Betina"] of the breed of the call
SexFactorRatio ==
    FDiv(BreedOf(call.jenis_ternak, call.bangsa).gender_factor["Jantan"],
         BreedOf(call.jenis_ternak, call.bangsa).gender_factor["Betina"])

MaleEstimate == ValidEstimatorCall /\ call.jenis_kelamin = "Jantan" /\ result.kind = "return"

\* C15 as it is stated: for every breed and measurement pair the weight for Jantan
\* divided by the weight for Betina equals the male sex factor divided by the
\* female one
C15_SexRatioExact ==
    MaleEstimate =>
        /\ ~IsZero(WeightForSex("Betina"))
        /\ FEq(FDiv(result.value[1], WeightForSex("Betina")), SexFactorRatio)

\* C15: for every breed and every measurement pair whose weight for Betina is
\* finite and not zero, the weight for Jantan divided by the weight for Betina
\* differs from the male sex factor divided by the female one by at most 10^-9
\* times that ratio
C15_SexRatioWithinRounding ==
    (MaleEstimate /\ IsFinite(WeightForSex("Betina")) /\ ~IsZero(WeightForSex("Betina"))) =>
        FLe(FAbs(FSub(FDiv(result.value[1], WeightForSex("Betina")), SexFactorRatio)),
            FMul(SexFactorRatio, Dec(1, 9)))

\* an estimate for Jantan whose quotient by the estimate for Betina is finite and
\* is not the quotient of the sex factors to the last bit
C15_Witness ==
    /\ MaleEstimate
    /\ IsFinite(WeightForSex("Betina"))
    /\ ~IsZero(WeightForSex("Betina"))
    /\ ~FEq(FDiv(result.value[1], WeightForSex("Betina")), SexFactorRatio)

\* the fields of the dict hitung_komponen_karkas returns
BreakdownFields ==
    {"karkas_weight", "karkas_percent", "meat_weight", "meat_percent_of_carcass",
     "meat_percent_of_body", "bone_and_fat_weight", "non_karkas_weights", "reference"}

\* C18: in either file the decomposition raises ZeroDivisionError only for a live
\* weight <= 0, and for every live weight > 0 it returns a breakdown with every
\* field, where meat_percent_of_body = meat_weight / live weight x 100
C18_DecompositionTotalAboveZero ==
    ValidCarcassCall =>
        /\ result.kind = "raise" =>
               /\ result.exc = "ZeroDivisionError"
               /\ FLe(call.berat_badan, FromInt(0))
        /\ FLt(FromInt(0), call.berat_badan) =>
               /\ result.kind = "return"
               /\ DOMAIN result.value = BreakdownFields
               /\ result.value.meat_percent_of_body =
                      FMul(FDiv(result.value.meat_weight, call.berat_badan), FromInt(100))

\* a breakdown of a positive live weight whose meat is a finite share of the body
\* and less than the share of the carcass
C18_Witness ==
    /\ ValidCarcassCall
    /\ FLt(FromInt(0), call.berat_badan)
    /\ result.kind = "return"
    /\ IsFinite(result.value.meat_percent_of_body)
    /\ FLt(result.value.meat_percent_of_body, result.value.karkas_percent)

\* every breed of ANIMAL_DATA names a formula of ANIMAL_FORMULAS of its species
ReferenceIntegrity ==
    \A t \in DOMAIN ANIMAL_DATA :
        /\ t \in DOMAIN ANIMAL_FORMULAS
        /\ \A i \in 1..Len(ANIMAL_DATA[t].breeds) :
               HasKey(ANIMAL_FORMULAS[t].formulas, ANIMAL_DATA[t].breeds[i].val.formula_name)

\* C20: for every species and breed of ANIMAL_DATA the breed's formula_name is a
\* key of ANIMAL_FORMULAS of the same species, and hitung_berat_badan does not fail
\* to resolve the formula of a registered breed
C20_FormulaReferenceIntegrity ==
    /\ ReferenceIntegrity
    /\ ValidEstimatorCall =>
           /\ result.kind = "return"
           /\ result.evaluated = <<BreedOf(call.jenis_ternak, call.bangsa).formula_name>>

\* an estimate that has resolved a formula which is not the first of its species
C20_Witness ==
    /\ ValidEstimatorCall
    /\ result.kind = "return"
    /\ result.evaluated # << >>
    /\ result.evaluated[1] # ANIMAL_FORMULAS[call.jenis_ternak].formulas[1].key
    /\ HasKey(ANIMAL_FORMULAS[call.jenis_ternak].formulas, result.evaluated[1])

(***************************************************************************)
(* The table of predictions.                                               *)
(***************************************************************************)
\* a table has been built for a breed and a sex of the tables
TableDone == Done("create_prediction_table") /\ result.kind = "return"

\* ld_values[i] and pb_values[j], as they were passed to hitung_berat_badan
AxisLD(i) == result.evaluated[i][1]

AxisPB(j) == result.evaluated[(j - 1) * call.steps + 1][2]

\* the N headers of the chest girths are N different texts
DistinctHeaders ==
    \A i, k \in 1..call.steps : i # k => format_1f(AxisLD(i)) # format_1f(AxisLD(k))

\* the cells of a row that hold a weight
WeightCells(row) == {i \in 1..Len(row) : row[i].val.text = "{bb:.1f} kg"}

\* the cell of pb_values[j] and ld_values[i] when the headers differ
Cell(j, i) == result.value[j][i + 1].val

\* float(text) of a formatted number
shown_number(f) ==
    IF f.kind = "nan" THEN FNaN
    ELSE IF f.kind = "inf" THEN FInf(f.sign)
    ELSE IF f.sign = 1 THEN FNeg(Dec(f.tenths, 1)) ELSE Dec(f.tenths, 1)

\* the weight of the estimator for the measurements at the centre of the table
CentreWeight ==
    hitung_berat_badan(call.lingkar_dada, call.panjang_badan, call.jenis_ternak, call.bangsa,
                       call.jenis_kelamin).value[1]

Middle == (call.steps + 1) \div 2

Fraction == FDiv(FromInt(call.variation_percent), FromInt(100))

\* centre * (1 - v/100) and centre * (1 + v/100)
Lowest(centre) == FMul(centre, FSub(FromInt(1), Fraction))

Highest(centre) == FMul(centre, FAdd(FromInt(1), Fraction))

\* value i of N values spaced evenly from lo to hi: lo and i - 1 steps of
\* (hi - lo) / (N - 1), each operation rounded; the last value is hi
Spaced(lo, hi, i) ==
    IF i = call.steps THEN hi
    ELSE FAdd(FMul(FromInt(i - 1), FDiv(FSub(hi, lo), FromInt(call.steps - 1))), lo)

\* both axes are evenly spaced over the interval around their centre
AxesAreSpaced ==
    \A i \in 1..call.steps :
        /\ AxisLD(i) = Spaced(Lowest(call.lingkar_dada), Highest(call.lingkar_dada), i)
        /\ AxisPB(i) = Spaced(Lowest(call.panjang_badan), Highest(call.panjang_badan), i)

\* the weight of the estimator for ld_values[i] and pb_values[j]
AxisWeight(j, i) ==
    hitung_berat_badan(AxisLD(i), AxisPB(j), call.jenis_ternak, call.bangsa,
                       call.jenis_kelamin).value[1]

\* C17: the chest girths of the table are steps values evenly spaced over
\* [centre * (1 - v/100), centre * (1 + v/100)], the body lengths likewise, the
\* generator calls hitung_berat_badan for every pair of them in row order, and
\* when the headers differ the cell of ld_i and pb_j is the text of
\* hitung_berat_badan(ld_i, pb_j, species, breed, sex) with one decimal and " kg",
\* with no factor of the generator's own
C17_AxesAndCells ==
    TableDone =>
        /\ Len(result.evaluated) = call.steps * call.steps
        /\ AxesAreSpaced
        /\ \A j, i \in 1..call.steps :
               result.evaluated[(j - 1) * call.steps + i] = <<AxisLD(i), AxisPB(j)>>
        /\ DistinctHeaders =>
               \A j, i \in 1..call.steps :
                   /\ result.value[j][i + 1].key = fstring("LD: {ld:.1f} cm", format_1f(AxisLD(i)))
                   /\ result.value[j][1].val = fstring("{pb:.1f}", format_1f(AxisPB(j)))
                   /\ Cell(j, i) = fstring("{bb:.1f} kg", format_1f(AxisWeight(j, i)))

\* a table for Domba Merino with rising chest girths whose first cell shows a
\* negative weight that is the estimator's only after rounding
C17_Witness ==
    /\ TableDone
    /\ call.bangsa = "Domba Merino"
    /\ call.steps = 3
    /\ DistinctHeaders
    /\ AxesAreSpaced
    /\ FLt(AxisLD(1), AxisLD(2)) /\ FLt(AxisLD(2), AxisLD(3))
    /\ Cell(1, 1).number = format_1f(AxisWeight(1, 1))
    /\ Cell(1, 1).number.sign = 1
    /\ ~FEq(shown_number(Cell(1, 1).number), AxisWeight(1, 1))

\* C17 as stated: the cell of ld_i and pb_j is exactly the weight that
\* hitung_berat_badan returns for them
C17_CellsAreExactWeights ==
    TableDone /\ DistinctHeaders =>
        /\ AxesAreSpaced
        /\ \A j, i \in 1..call.steps : FEq(shown_number(Cell(j, i).number), AxisWeight(j, i))

(***************************************************************************)
(* Sessions.                                                               *)
(***************************************************************************)
\* the values that the import of the two modules gives the tables
ImportedTables ==
    [ANIMAL_FORMULAS |-> import_ANIMAL_FORMULAS(ANIMAL_FORMULAS_src),
     ANIMAL_DATA |-> import_ANIMAL_DATA(ANIMAL_DATA_src),
     SLAUGHTER_DATA |-> import_SLAUGHTER_DATA(SLAUGHTER_DATA_src),
     V3_SLAUGHTER_DATA |-> import_SLAUGHTER_DATA(V3_SLAUGHTER_DATA_src)]

\* the tables are what the import of the module has made them
TablesAsImported ==
    /\ ANIMAL_FORMULAS = ImportedTables.ANIMAL_FORMULAS
    /\ ANIMAL_DATA = ImportedTables.ANIMAL_DATA
    /\ SLAUGHTER_DATA = ImportedTables.SLAUGHTER_DATA
    /\ V3_SLAUGHTER_DATA = ImportedTables.V3_SLAUGHTER_DATA

\* an outcome of hitung_berat_badan is at hand and an earlier call with the same
\* five arguments has been remembered
SameCallAgain ==
    /\ EstimateAtHand
    /\ earlier # << >>
    /\ earlier[1] = EstimatorArguments

C19_PositiveWeightReachesDecomposition ==
    pc = "line 992" => FLt(FromInt(0), result.value[1])

(***************************************************************************)
(* The keys of the tables.                                                 *)
(***************************************************************************)
CarcassDone == Done("hitung_komponen_karkas") \/ Done("V3.hitung_komponen_karkas")

BreedNames(table, jenis_ternak) ==
    {table[jenis_ternak].breeds[i].key : i \in 1..Len(table[jenis_ternak].breeds)}

\* hitung_berat_badan returns for the species, breed and sex of the call at hand
EstimatorAccepts ==
    hitung_berat_badan(FromInt(100), FromInt(100), call.jenis_ternak, call.bangsa,
                       call.jenis_kelamin).kind = "return"

\* C21: ANIMAL_FORMULAS, ANIMAL_DATA and SLAUGHTER_DATA (of either file) have the
\* same three species; in the species of a decomposition the breed names of
\* SLAUGHTER_DATA are those of ANIMAL_DATA, each with a karkas_percent for both
\* sexes; and hitung_komponen_karkas raises no KeyError for a species, breed and
\* sex for which hitung_berat_badan returns
C21_TablesKeyedConsistently ==
    CarcassDone =>
        /\ DOMAIN ANIMAL_FORMULAS = DOMAIN ANIMAL_DATA
        /\ DOMAIN SlaughterTable = DOMAIN ANIMAL_DATA
        /\ Cardinality(DOMAIN ANIMAL_DATA) = 3
        /\ call.jenis_ternak \in DOMAIN ANIMAL_DATA =>
               /\ BreedNames(SlaughterTable, call.jenis_ternak) =
                      BreedNames(ANIMAL_DATA, call.jenis_ternak)
               /\ \A i \in 1..Len(SlaughterTable[call.jenis_ternak].breeds) :
                      Sexes \subseteq
                          DOMAIN SlaughterTable[call.jenis_ternak].breeds[i].val.karkas_percent
        /\ EstimatorAccepts => ~(result.kind = "raise" /\ result.exc = "KeyError")

\* a breakdown returned for the last breed of a species, which the estimator accepts
C21_Witness ==
    /\ CarcassDone
    /\ call.bangsa = "Domba Texel"
    /\ call.jenis_kelamin = "Betina"
    /\ EstimatorAccepts
    /\ result.kind = "return"
    /\ FLt(FromInt(0), result.value.karkas_weight)

\* C27: for every breed of every species and both sexes of SLAUGHTER_DATA,
\* karkas_percent[sex] + sum(non_karkas_percent.values()) is below 100, and every
\* breakdown returned by hitung_komponen_karkas of sapi_weight_predictor.py has
\* the component "Lain-lain", whose percentage 100 - total_accounted is above 0
C27_NeverOverAllocated ==
    ValidCarcassCall =>
        /\ FLt(Accounted, FromInt(100))
        /\ FLt(FromInt(0), FSub(FromInt(100), Accounted))
        /\ (Done("hitung_komponen_karkas") /\ result.kind = "return") =>
               /\ HasKey(result.value.non_karkas_weights, "Lain-lain")
               /\ Get(result.value.non_karkas_weights, "Lain-lain") =
                      FDiv(FMul(call.berat_badan, FSub(FromInt(100), Accounted)),
                           FromInt(100))

\* a breakdown of the breed and sex with the greatest total, 99.4 per cent
C27_Witness ==
    /\ ResidualCase
    /\ FLt(Dec(99, 0), Accounted)
    /\ HasKey(result.value.non_karkas_weights, "Lain-lain")
    /\ FLt(FromInt(0), Get(result.value.non_karkas_weights, "Lain-lain"))

(***************************************************************************)
(* The order of the bars.                                                  *)
(***************************************************************************)
\* the breed names of the tables as sorted() orders them (by code point)
LexicalOrder ==
    <<"Domba Ekor Gemuk", "Domba Ekor Tipis", "Domba Garut", "Domba Merino",
      "Domba Suffolk", "Domba Texel",
      "Kambing Bligon", "Kambing Boer", "Kambing Ettawa", "Kambing Jawarandu",
      "Kambing Kacang", "Kambing Peranakan Ettawa (PE)",
      "Sapi Aceh", "Sapi Bali", "Sapi Brahman", "Sapi Friesian Holstein (FH)",
      "Sapi Limousin", "Sapi Madura", "Sapi Peranakan Ongole (PO)", "Sapi Simental">>

LexicalRank(name) == CHOOSE k \in 1..Len(LexicalOrder) : LexicalOrder[k] = name

\* bars p < q of the comparison at hand have equal weights
Tie(p, q) == p < q /\ FEq(result.value[p].weight, result.value[q].weight)

\* C22: in the breed comparison of either file, two breeds of the species with
\* equal corrected weight for the sex and measurements of the call appear in the
\* lexical order of their names
C22_TiesInLexicalOrder ==
    (ValidChartCall /\ result.kind = "return") =>
        \A p, q \in 1..Len(result.value) :
            Tie(p, q) => LexicalRank(result.value[p].breed_name) <
                             LexicalRank(result.value[q].breed_name)

\* the position of a breed in ANIMAL_DATA[animal_type]["breeds"]
TablePosition(name) ==
    CHOOSE i \in 1..Len(ANIMAL_DATA[call.animal_type].breeds) :
        ANIMAL_DATA[call.animal_type].breeds[i].key = name

SortedChart ==
    /\ Done("create_breed_comparison_chart")
    /\ call.animal_type \in DOMAIN ANIMAL_DATA
    /\ call.gender \in Sexes
    /\ result.kind = "return"

\* the bars are the breeds of the species, each once
BarsArePermutation ==
    /\ Len(result.value) = Len(ANIMAL_DATA[call.animal_type].breeds)
    /\ {result.value[p].breed_name : p \in 1..Len(result.value)} =
           BreedNames(ANIMAL_DATA, call.animal_type)

\* name, weight, formula name and colour of every bar are those of one breed
BarsBelongToBreeds ==
    \A p \in 1..Len(result.value) :
        /\ result.value[p].weight =
               hitung_berat_badan(call.chest_size, call.body_length, call.animal_type,
                                  result.value[p].breed_name, call.gender).value[1]
        /\ result.value[p].formula =
               BreedOf(call.animal_type, result.value[p].breed_name).formula_name
        /\ result.value[p].color = (TablePosition(result.value[p].breed_name) - 1) % 10

SankeyDone == Done("V3.create_carcass_sankey") /\ result.kind = "return"

RECURSIVE FlowTo(_, _, _)
\* the values of the first n links that end at the node, added up
FlowTo(node, link, n) ==
    IF n = 0 THEN FromInt(0)
    ELSE IF link[n].target = index(result.value.label, node)
         THEN FAdd(FlowTo(node, link, n - 1), link[n].value)
         ELSE FlowTo(node, link, n - 1)

RECURSIVE FlowFrom(_, _, _)
\* the values of the first n links that start at the node, added up
FlowFrom(node, link, n) ==
    IF n = 0 THEN FromInt(0)
    ELSE IF link[n].source = index(result.value.label, node)
         THEN FAdd(FlowFrom(node, link, n - 1), link[n].value)
         ELSE FlowFrom(node, link, n - 1)

\* what flows into the node and what flows out of it differ by at most
\* live weight / 10^9
Conserved(node) ==
    FLe(FAbs(FSub(FlowTo(node, result.value.link, Len(result.value.link)),
                  FlowFrom(node, result.value.link, Len(result.value.link)))),
        FMul(call.berat_badan, Dec(1, 9)))

\* C29: in the Sankey diagram of version/V3, for every breed, sex and live
\* weight > 0, what flows into Karkas is what flows out of it to Daging and
\* Tulang & Lemak, and what flows into Non-Karkas is what flows out of it to
\* the non-carcass components (each up to float rounding)
C29_SankeyFlowConserved ==
    SankeyDone => Conserved("Karkas") /\ Conserved("Non-Karkas")

\* the species, breed and sex that a call of the last run was given
Selection(c) ==
    IF c.fn = "hitung_berat_badan" THEN <<c.args[3], c.args[4], c.args[5]>>
    ELSE IF c.fn = "hitung_komponen_karkas" THEN <<c.args[2], c.args[3], c.args[4]>>
    ELSE << >>

\* the calls of the estimator and of the decomposition in the last run
CoreCalls ==
    {i \in 1..Len(run.calls) :
        run.calls[i].fn \in {"hitung_berat_badan", "hitung_komponen_karkas"}}

\* C23: after any sequence of selections of species, breed and sex on the page
\* of either file, the species is a key of ANIMAL_DATA, the breed is a breed of
\* the species now selected, the sex is Jantan or Betina, the lookup of the breed
\* does not fail, and the estimator and the decomposition are called with
\* exactly these three values
C23_SelectionsMeetContract ==
    PageOpen =>
        /\ widgets.jenis_ternak \in {"Sapi", "Kambing", "Domba"}
        /\ widgets.jenis_ternak \in DOMAIN ANIMAL_DATA_src
        /\ widgets.bangsa_ternak \in BreedNames(ANIMAL_DATA_src, widgets.jenis_ternak)
        /\ widgets.jenis_kelamin \in {"Jantan", "Betina"}
        /\ \A i \in 1..Len(run.calls) : run.calls[i].fn # "dict.__getitem__"
        /\ \A i \in CoreCalls :
               Selection(run.calls[i])
                   = <<widgets.jenis_ternak, widgets.bangsa_ternak, widgets.jenis_kelamin>>

\* the button is pressed with the third breed of the third species and the
\* second sex selected: the species, the breed and the sex were all changed
C23_Witness ==
    /\ PageOpen
    /\ run.button
    /\ CoreCalls # {}
    /\ \A i \in CoreCalls : Selection(run.calls[i]) = <<"Domba", "Domba Merino", "Betina">>

\* the last run has called fn at position i of its calls
CalledAt(i, fn) == i \in 1..Len(run.calls) /\ run.calls[i].fn = fn

TableShown ==
    /\ widgets.steps # 0
    /\ \E i \in 1..Len(run.calls) :
           /\ run.calls[i].fn = "create_prediction_table"
           /\ run.calls[i].args[6] = widgets.steps
           /\ run.calls[i].args[7] = widgets.variation_percent
           /\ CalledAt(i + 1, "st.dataframe")
           /\ run.calls[i + 1].args = run.calls[i].args

\* C25: once a press of the button has computed a weight, every change of the
\* slider of the variation or of the slider of the steps is followed by a run
\* that builds the table of predictions from the new values of the sliders
\* and displays it
C25_SliderChangeRebuildsTable ==
    [][(Move_variation_percent \/ Move_steps) => TableShown']_vars

\* the ranges of the breed selected on the page, as the source writes them
SelectedBreed == Get(ANIMAL_DATA_src[widgets.jenis_ternak].breeds, widgets.bangsa_ternak)

\* the number input drawn with these arguments for this range admits the
\* numbers from 0.8 x min to 1.2 x max and no others, its initial value is the
\* middle of the range and lies in the range, and it holds a number it admits
AdmitsMargins(input, range, held) ==
    /\ input[1] = Dec(8 * range.min, 1)
    /\ input[3] = Dec(12 * range.max, 1)
    /\ \A x \in Entries(input) \cup {input[2], FromInt(range.min), FromInt(range.max)} :
           admits(input, x) <=> FLe(Dec(8 * range.min, 1), x) /\ FLe(x, Dec(12 * range.max, 1))
    /\ FEq(FMul(input[2], FromInt(2)), FromInt(range.min + range.max))
    /\ FLe(FromInt(range.min), input[2]) /\ FLe(input[2], FromInt(range.max))
    /\ admits(input, input[2])
    /\ Len(held) = 1
    /\ admits(input, held[1])

\* C26: for every breed, on the page of either file, the inputs of the chest
\* girth and of the body length admit the values from 0.8 x the least to
\* 1.2 x the greatest value of the range of the breed and nothing outside;
\* the initial value is the middle of the range and is admitted; and a press
\* of the button computes the weight and the carcass for whatever values the
\* inputs hold, outside the range of the breed or not
C26_InputsAdmitMargins ==
    PageOpen =>
        /\ AdmitsMargins(widgets.chest_input, SelectedBreed.chest_range, widgets.lingkar_dada)
        /\ AdmitsMargins(widgets.length_input, SelectedBreed.length_range, widgets.panjang_badan)
        /\ run.button =>
               /\ CalledAt(1, "hitung_berat_badan")
               /\ run.calls[1].args[1] = widgets.lingkar_dada[1]
               /\ run.calls[1].args[2] = widgets.panjang_badan[1]
               /\ run.calls[1].result.kind = "return"
               /\ IsFinite(run.calls[1].result.value[1])
               /\ CalledAt(2, "hitung_komponen_karkas")
               /\ run.calls[2].result.kind = "return"

\* the button was pressed with the least admitted chest girth, which is below
\* the range of the breed, and the greatest admitted body length, which is
\* above it
C26_Witness ==
    /\ PageOpen
    /\ run.button
    /\ CalledAt(2, "hitung_komponen_karkas")
    /\ run.calls[1].args[1] = widgets.chest_input[1]
    /\ FLt(run.calls[1].args[1], FromInt(SelectedBreed.chest_range.min))
    /\ run.calls[1].args[2] = widgets.length_input[3]
    /\ FLt(FromInt(SelectedBreed.length_range.max), run.calls[1].args[2])

\* the position of the call of create_prediction_table in the last run
TableCall == CHOOSE i \in 1..Len(run.calls) : run.calls[i].fn = "create_prediction_table"

\* an axis of the table has steps values, the first above 0 and each below
\* the next, and the header of the middle one is the header of the centre
AxisAroundCentre(axis, centre, steps) ==
    /\ Len(axis) = steps
    /\ FLt(FromInt(0), axis[1])
    /\ \A i \in 1..(steps - 1) : FLt(axis[i], axis[i + 1])
    /\ steps % 2 = 1
    /\ format_1f(axis[(steps + 1) \div 2]) = format_1f(centre)

\* both axes of the table for these measurements and positions of the sliders
AxesAroundCentre(lingkar_dada, panjang_badan, steps, variation_percent) ==
    \A axes \in {prediction_axes(lingkar_dada, panjang_badan, steps,
                                 FDiv(FromInt(variation_percent), FromInt(100)))} :
        /\ AxisAroundCentre(axes[1], lingkar_dada, steps)
        /\ AxisAroundCentre(axes[2], panjang_badan, steps)

\* the positions the sliders were drawn at, and the least and the greatest
\* positions that they offer
SliderPairs ==
    {<<run.calls[TableCall].args[6], run.calls[TableCall].args[7]>>}
    \cup {<<s, v>> \in slider_values(3, 9, 2) \X slider_values(5, 30, 1) :
             \/ \A t \in slider_values(3, 9, 2) : s <= t
             \/ \A t \in slider_values(3, 9, 2) : s >= t}

\* C30: whenever the page calls create_prediction_table, steps is 3, 5, 7 or 9
\* and variation_percent is an integer from 5 to 30, as is every position the
\* two sliders offer; the axes of the table then have steps values that are
\* above 0 and strictly increasing, and the middle row and the middle column
\* carry the headers of the measurements the inputs hold
C30_SliderPairsGiveCentredTable ==
    (PageOpen /\ sliders_drawn(run.calls)) =>
        /\ slider_values(3, 9, 2) = {3, 5, 7, 9}
        /\ slider_values(5, 30, 1) = 5..30
        /\ run.calls[TableCall].args[6] = widgets.steps
        /\ run.calls[TableCall].args[7] = widgets.variation_percent
        /\ run.calls[TableCall].args[1] = widgets.lingkar_dada[1]
        /\ run.calls[TableCall].args[2] = widgets.panjang_badan[1]
        /\ \A pair \in SliderPairs :
               /\ pair[1] \in {3, 5, 7, 9}
               /\ pair[2] \in 5..30
               /\ pair[2] \in {5, 30} \/ pair = <<widgets.steps, widgets.variation_percent>> =>
                      AxesAroundCentre(widgets.lingkar_dada[1], widgets.panjang_badan[1],
                                       pair[1], pair[2])

\* the table is built for the least chest girth an input admits
C30_Witness ==
    /\ PageOpen
    /\ sliders_drawn(run.calls)
    /\ CalledAt(TableCall + 1, "st.dataframe")
    /\ run.calls[TableCall].args[6] = 5
    /\ run.calls[TableCall].args[7] = 15
    /\ run.calls[TableCall].args[1] = widgets.chest_input[1]

====
